---- MODULE Spec2Model ----
(***************************************************************************)
(* The document processing server of PDF Professor (server index.js):      *)
(* POST /api/process-document with its Gemini client (callGemini under     *)
(* async-retry), chunker, translation fan-out under p-limit, field         *)
(* extractor and record filter, and the documents table it writes.         *)
(*                                                                         *)
(* Strings are sequences of one-character strings.  The extracted PDF text *)
(* is kept run-length encoded (a sequence of [c, n] runs), so that texts   *)
(* of several 15000-character chunks stay small values.                    *)
(***************************************************************************)
EXTENDS Integers, Sequences, FiniteSets, TLC

\* ------------------------------------------------------------------ bounds
\* Largest number of chunks of a text handed to translateToEnglish.
MaxChunks == 3
\* Requests the server accepts in one run of the pipeline model.
MaxRequests == 2
\* chunkText on its own: texts of at most MaxRuns runs of at most MaxRun equal
\* characters, sizes of at most MaxSize.
MaxRuns == 3
MaxRun == 3
MaxSize == 4
\* The arrays of the responses given to extractTransactionFields have at most
\* MaxElems elements.
MaxElems == 2
\* The texts given to detectLangISO1 have MIN_LENGTH - MaxPad .. MIN_LENGTH +
\* MaxPad characters between at most MaxPad white-space characters on each side.
MaxPad == 2
MaxFiles == 2

\* ------------------------------------------------------- program constants
CHUNK_SIZE == 15000
CONCURRENCY == 6
RETRIES == 2
MIN_LENGTH == 20

\* ----------------------------------------------------------------- strings
IsSpace(c) == c \in {" ", "\n"}

RECURSIVE DropLeadingSpace(_)
DropLeadingSpace(s) ==
  IF s = <<>> THEN <<>>
  ELSE IF IsSpace(Head(s)) THEN DropLeadingSpace(Tail(s)) ELSE s

RECURSIVE DropTrailingSpace(_)
DropTrailingSpace(s) ==
  IF s = <<>> THEN <<>>
  ELSE IF IsSpace(s[Len(s)]) THEN DropTrailingSpace(SubSeq(s, 1, Len(s) - 1)) ELSE s

\* String.prototype.trim
StrTrim(s) == DropTrailingSpace(DropLeadingSpace(s))

\* Array.prototype.join('\n') over an array of strings
RECURSIVE JoinNewline(_)
JoinNewline(parts) ==
  IF parts = <<>> THEN <<>>
  ELSE IF Len(parts) = 1 THEN parts[1]
  ELSE parts[1] \o <<"\n">> \o JoinNewline(Tail(parts))

\* ------------------------------------------------- run-length encoded text
Run(c, n) == [c |-> c, n |-> n]

RECURSIVE TextLen(_)
TextLen(t) == IF t = <<>> THEN 0 ELSE Head(t).n + TextLen(Tail(t))

RECURSIVE TextDropLeadingSpace(_)
TextDropLeadingSpace(t) ==
  IF t = <<>> THEN <<>>
  ELSE IF IsSpace(Head(t).c) THEN TextDropLeadingSpace(Tail(t)) ELSE t

RECURSIVE TextDropTrailingSpace(_)
TextDropTrailingSpace(t) ==
  IF t = <<>> THEN <<>>
  ELSE IF IsSpace(t[Len(t)].c) THEN TextDropTrailingSpace(SubSeq(t, 1, Len(t) - 1)) ELSE t

TextTrim(t) == TextDropTrailingSpace(TextDropLeadingSpace(t))

Min(a, b) == IF a < b THEN a ELSE b
Max(a, b) == IF a > b THEN a ELSE b

\* String.prototype.slice(lo, hi) for 0 <= lo <= hi: the characters at the
\* 0-based positions lo .. hi-1 that exist.
RECURSIVE TextSlice(_, _, _)
TextSlice(t, lo, hi) ==
  IF t = <<>> \/ hi <= 0 THEN <<>>
  ELSE LET r    == Head(t)
           from == Min(Max(lo, 0), r.n)
           to   == Min(hi, r.n)
           rest == TextSlice(Tail(t), lo - r.n, hi - r.n)
       IN  IF to > from THEN <<Run(r.c, to - from)>> \o rest ELSE rest

\* --------------------------------------------------------------- chunkText
\* A loop that steps one character too far.
RECURSIVE ChunkLoopSkipping(_, _, _)
ChunkLoopSkipping(text, size, i) ==
  IF i < TextLen(text)
  THEN <<TextSlice(text, i, i + size)>> \o ChunkLoopSkipping(text, size, i + size + 1)
  ELSE <<>>

\* A loop that runs once more at i = text.length.
RECURSIVE ChunkLoopInclusive(_, _, _)
ChunkLoopInclusive(text, size, i) ==
  IF i <= TextLen(text)
  THEN <<TextSlice(text, i, i + size)>> \o ChunkLoopInclusive(text, size, i + size)
  ELSE <<>>

\* for (let i = 0; i < text.length; i += size) chunks.push(text.slice(i, i + size))
RECURSIVE ChunkLoop(_, _, _)
ChunkLoop(text, size, i) ==
  IF i < TextLen(text)
  THEN <<TextSlice(text, i, i + size)>> \o ChunkLoop(text, size, i + size)
  ELSE <<>>

chunkText(text, size) == ChunkLoop(text, size, 0)

\* -------------------------------------------------- callGemini (async-retry)
\* What the generative endpoint answers to one fetch: an HTTP status and the
\* text it carries (the first candidate's text of a 2xx envelope, the response
\* body otherwise).  Status 0 stands for a fetch that rejects (network error).
Answer(status, text) == [status |-> status, text |-> text]

\* One callGemini activation: the retry operation of async-retry and the
\* promise it returns.  att counts the fetches issued, errors is the retry
\* operation's error list, log the statuses received so far.
NewCall(prompt) ==
  [prompt |-> prompt, phase |-> "queued", att |-> 0, settled |-> "pending",
   value |-> <<>>, errors |-> <<>>, log |-> <<>>]

IssueFetch(c) == [c EXCEPT !.phase = "fetch", !.att = @ + 1]

\* A promise settles once: later resolve/reject calls change nothing.
Resolve(c, v) ==
  IF c.settled = "pending" THEN [c EXCEPT !.settled = "fulfilled", !.value = v] ELSE c

Reject(c, msg) ==
  IF c.settled = "pending" THEN [c EXCEPT !.settled = "rejected", !.value = msg] ELSE c

\* new Error(`Gemini ${res.status}: ${txt}`).message
GeminiMessage(status, txt) == <<"Gemini ", ToString(status), ": ">> \o txt

FetchFailedMessage == <<"fetch failed">>

\* retry's RetryOperation.mainError: the error whose message occurs most
\* often, the later one on a tie.
Count(errors, msg) == Cardinality({j \in 1..Len(errors) : errors[j] = msg})

RECURSIVE MainErrorLoop(_, _, _, _)
MainErrorLoop(errors, i, mainError, mainErrorCount) ==
  IF i > Len(errors) THEN mainError
  ELSE LET count == Count(SubSeq(errors, 1, i), errors[i])
       IN  IF count >= mainErrorCount
           THEN MainErrorLoop(errors, i + 1, errors[i], count)
           ELSE MainErrorLoop(errors, i + 1, mainError, mainErrorCount)

MainError(errors) == MainErrorLoop(errors, 1, <<>>, 0)

\* One retry fewer.
RetryLeftOneFewer(att) == att < RETRIES

\* retry's op.retry(err): a retry is scheduled while timeouts are left, that is
\* after attempts 1 .. RETRIES.
RetryLeft(att) == att <= RETRIES

\* async-retry's onError for an error thrown by the attempt: schedule the
\* next attempt, or reject with mainError() when none is left.
OnError(c, msg) ==
  LET errs == Append(c.errors, msg)
      c1   == [c EXCEPT !.errors = errs]
  IN  IF RetryLeft(c.att)
      THEN [c1 EXCEPT !.phase = "backoff"]
      ELSE [Reject(c1, MainError(errs)) EXCEPT !.phase = "done"]

\* if (res.status < 500) bail(new Error(txt));  bail rejects the promise and
\* execution goes on to the throw below it.
Bail(c, status, txt) == IF status < 500 THEN Reject(c, txt) ELSE c

\* The attempt function of callGemini resuming with the endpoint's answer.
OnAnswer(c, r) ==
  LET c0 == [c EXCEPT !.log = Append(@, r.status)]
  IN  IF r.status = 0
      THEN OnError(c0, FetchFailedMessage)
      ELSE IF r.status \in 200..299
      THEN [Resolve(c0, StrTrim(r.text)) EXCEPT !.phase = "done"]
      ELSE OnError(Bail(c0, r.status, r.text), GeminiMessage(r.status, r.text))

\* The backoff timer of the retry operation fires: the next attempt runs.
OnTimer(c) == IssueFetch(c)

\* ------------------------------------------------ translateToEnglish (p-limit)
\* const isTamil = sourceLang === 'ta' || sourceLang === 'auto'
\* The specialised case for the language code "ta" alone.
IsTamilCodeOnly(sourceLang) == sourceLang = "ta"

IsTamil(sourceLang) == sourceLang = "ta" \/ sourceLang = "auto"

TranslatePrompt(chunk, sourceLang) ==
  [kind |-> IF IsTamil(sourceLang) THEN "tamil-legal" ELSE "generic",
   lang |-> sourceLang, chunk |-> chunk]

\* p-limit's activeCount: the limited functions that run and have not settled.
ActiveCount(tasks) ==
  Cardinality({k \in 1..Len(tasks) : tasks[k].phase # "queued" /\ tasks[k].settled = "pending"})

Queued(tasks) == {k \in 1..Len(tasks) : tasks[k].phase = "queued"}

\* p-limit starts queued functions in FIFO order while activeCount < concurrency.
RECURSIVE StartQueued(_)
StartQueued(tasks) ==
  IF Queued(tasks) # {} /\ ActiveCount(tasks) < CONCURRENCY
  THEN LET k == CHOOSE q \in Queued(tasks) : \A o \in Queued(tasks) : q <= o
       IN  StartQueued([tasks EXCEPT ![k] = IssueFetch(@)])
  ELSE tasks

\* chunks.map((chunk, idx) => limit(async () => callGemini(prompt)))
MakeTasks(chunks, sourceLang) ==
  StartQueued([k \in 1..Len(chunks) |-> NewCall(TranslatePrompt(chunks[k], sourceLang))])

\* Settling as Promise.all would see it: over at the first rejection.
AllSettledOrOneRejected(tasks) ==
  \/ \A k \in 1..Len(tasks) : tasks[k].settled # "pending"
  \/ \E k \in 1..Len(tasks) : tasks[k].settled = "rejected"

\* await Promise.allSettled(tasks)
AllSettled(tasks) == \A k \in 1..Len(tasks) : tasks[k].settled # "pending"

\* The fulfilled results alone, the rejected ones left out.
RECURSIVE FulfilledOnly(_)
FulfilledOnly(tasks) ==
  IF tasks = <<>> THEN <<>>
  ELSE IF Head(tasks).settled = "fulfilled"
       THEN <<Head(tasks).value>> \o FulfilledOnly(Tail(tasks))
       ELSE FulfilledOnly(Tail(tasks))

\* results.map(r => r.status === 'fulfilled' ? r.value : '')
TranslatedChunks(tasks) ==
  [k \in 1..Len(tasks) |-> IF tasks[k].settled = "fulfilled" THEN tasks[k].value ELSE <<>>]

\* translatedChunks.join('\n').trim()
FinalResult(tasks) == StrTrim(JoinNewline(TranslatedChunks(tasks)))

\* ---------------------------------------------------------- detectLangISO1
\* const langMap = { tam: 'ta', hin: 'hi', eng: 'en' }
langMap(code3) ==
  CASE code3 = "tam" -> "ta"
    [] code3 = "hin" -> "hi"
    [] code3 = "eng" -> "en"
    [] OTHER -> "auto"

\* The length test on the text as given, not trimmed.
detectLangISO1Untrimmed(text, code3) ==
  IF text = <<>> \/ TextLen(text) < MIN_LENGTH THEN "auto" ELSE langMap(code3)

\* code3 is what franc answers for the text (the identification model is an
\* opaque library function).
detectLangISO1(text, code3) ==
  IF text = <<>> \/ TextLen(TextTrim(text)) < MIN_LENGTH THEN "auto" ELSE langMap(code3)

\* ------------------------------------------------- JSON values and JSON.parse
JUndef == [t |-> "undef", v |-> <<>>]
JNull == [t |-> "null", v |-> <<>>]
JStr(s) == [t |-> "str", v |-> s]
JNum(n) == [t |-> "num", v |-> <<n>>]
JArr(a) == [t |-> "arr", v |-> a]
JObj(o) == [t |-> "obj", v |-> o]

Transaction(buyer, seller, house_no, survey_no, document_no) ==
  [buyer |-> buyer, seller |-> seller, house_no |-> house_no,
   survey_no |-> survey_no, document_no |-> document_no]

\* A JSON object literal is one token of a response text; these are the
\* objects the tokens stand for.
ObjTokens == {"{kumar}", "{singh}", "{odd}", "{list}"}

ObjectOf(tok) ==
  CASE tok = "{kumar}" ->
         Transaction(JStr(<<"A", "K">>), JStr(<<"S">>), JStr(<<"1", "2">>), JUndef, JNull)
    [] tok = "{singh}" ->
         Transaction(JStr(<<"B", "s">>), JUndef, JStr(<<"7">>), JStr(<<"1">>), JStr(<<"D">>))
    [] tok = "{list}" ->
         Transaction(JStr(<<"K", "a">>), JUndef, JArr(<<JStr(<<"1">>)>>), JArr(<<>>), JUndef)
    [] OTHER ->
         Transaction(JNum(12), JNull, JNum(12), JUndef, JUndef)

NumTokens == {"7"}

NumberOf(tok) == 7

Failed(rest) == [ok |-> FALSE, val |-> JNull, rest |-> rest]

Parsed(val, rest) == [ok |-> TRUE, val |-> val, rest |-> rest]

\* The characters of a string literal up to its closing quote.
RECURSIVE StringBody(_)
StringBody(s) ==
  IF s = <<>> THEN [ok |-> FALSE, val |-> <<>>, rest |-> <<>>]
  ELSE IF Head(s) = "\"" THEN [ok |-> TRUE, val |-> <<>>, rest |-> Tail(s)]
  ELSE LET r == StringBody(Tail(s))
       IN  [ok |-> r.ok, val |-> <<Head(s)>> \o r.val, rest |-> r.rest]

RECURSIVE ParseValue(_)
RECURSIVE ParseElements(_, _)

\* One JSON value at the head of s, leading whitespace skipped.
ParseValue(s) ==
  LET w == DropLeadingSpace(s)
  IN  IF w = <<>> THEN Failed(w)
      ELSE IF Head(w) = "[" THEN
             LET a == DropLeadingSpace(Tail(w))
             IN  IF a # <<>> /\ Head(a) = "]" THEN Parsed(JArr(<<>>), Tail(a))
                 ELSE ParseElements(a, <<>>)
      ELSE IF Head(w) \in ObjTokens THEN Parsed(JObj(ObjectOf(Head(w))), Tail(w))
      ELSE IF Head(w) \in NumTokens THEN Parsed(JNum(NumberOf(Head(w))), Tail(w))
      ELSE IF Head(w) = "null" THEN Parsed(JNull, Tail(w))
      ELSE IF Head(w) = "\"" THEN
             LET b == StringBody(Tail(w))
             IN  IF b.ok THEN Parsed(JStr(b.val), b.rest) ELSE Failed(w)
      ELSE Failed(w)

\* The elements of an array after its "[" (or after a ","), acc the elements
\* read so far.
ParseElements(s, acc) ==
  LET e == ParseValue(s)
      w == DropLeadingSpace(e.rest)
  IN  IF ~e.ok \/ w = <<>> THEN Failed(s)
      ELSE IF Head(w) = "]" THEN Parsed(JArr(Append(acc, e.val)), Tail(w))
      ELSE IF Head(w) = "," THEN ParseElements(Tail(w), Append(acc, e.val))
      ELSE Failed(s)

\* JSON.parse(text): the whole text is one value, or a SyntaxError is thrown.
JSONParse(text) ==
  LET r == ParseValue(text)
  IN  IF r.ok /\ DropLeadingSpace(r.rest) = <<>> THEN r ELSE Failed(text)

\* -------------------------------------------------- extractTransactionFields
FieldsPrompt(translatedText) ==
  [kind |-> "fields", lang |-> "", chunk |-> translatedText]

StartsWith(s, prefix) ==
  Len(s) >= Len(prefix) /\ SubSeq(s, 1, Len(prefix)) = prefix

\* "bq" is the backquote character.
Fence == <<"bq", "bq", "bq">>
FenceJson == Fence \o <<"j", "s", "o", "n">>

\* response.replace(/(3 backquotes)json|(3 backquotes)/g, ''): every
\* occurrence, left to right.
RECURSIVE RemoveFences(_)
RemoveFences(s) ==
  IF s = <<>> THEN <<>>
  ELSE IF StartsWith(s, FenceJson) THEN RemoveFences(SubSeq(s, Len(FenceJson) + 1, Len(s)))
  ELSE IF StartsWith(s, Fence) THEN RemoveFences(SubSeq(s, Len(Fence) + 1, Len(s)))
  ELSE <<Head(s)>> \o RemoveFences(Tail(s))

Clean(response) == StrTrim(RemoveFences(response))

\* A return of whatever parsed:  return json.
ParseTransactionsAnyValue(response) ==
  LET json == JSONParse(Clean(response))
  IN  IF json.ok THEN json.val.v ELSE <<>>

\* The try/catch around JSON.parse: the parsed array, or [] when the parse
\* throws or the value is not an array.
ParseTransactions(response) ==
  LET json == JSONParse(Clean(response))
  IN  IF json.ok /\ json.val.t = "arr" THEN json.val.v ELSE <<>>

\* --------------------------------------------------------- filterTransactions
LowerCase(c) ==
  CASE c = "A" -> "a"
    [] c = "B" -> "b"
    [] c = "D" -> "d"
    [] c = "K" -> "k"
    [] c = "S" -> "s"
    [] OTHER -> c

\* String.prototype.toLowerCase
toLowerCase(s) == [j \in 1..Len(s) |-> LowerCase(s[j])]

\* String.prototype.includes
includes(s, sub) ==
  \E j \in 0..(Len(s) - Len(sub)) : SubSeq(s, j + 1, j + Len(sub)) = sub

\* The request's filter fields; the empty string stands for a field the body
\* does not carry (both are falsy).
Query(buyer, seller, houseNumber, surveyNumber, documentNumber) ==
  [buyer |-> buyer, seller |-> seller, houseNumber |-> houseNumber,
   surveyNumber |-> surveyNumber, documentNumber |-> documentNumber]

NoFilter == Query(<<>>, <<>>, <<>>, <<>>, <<>>)

\* t.<field> for an array element t: a TypeError for null, undefined for a
\* value that is no object.
Property(t, name) ==
  IF t.t = "null" THEN [throws |-> TRUE, val |-> JUndef]
  ELSE IF t.t = "obj" THEN [throws |-> FALSE, val |-> t.v[name]]
  ELSE [throws |-> FALSE, val |-> JUndef]

\* The clause without optional chaining: t.f.toLowerCase() and t.f.includes
\* throw for a missing or null field.
ClauseUnchained(t, name, wanted, fold) ==
  IF wanted = <<>> THEN "T"
  ELSE LET p == Property(t, name)
       IN  IF p.throws THEN "X"
           ELSE IF p.val.t = "str" THEN
                  IF fold
                  THEN IF includes(toLowerCase(p.val.v), toLowerCase(wanted)) THEN "T" ELSE "F"
                  ELSE IF includes(p.val.v, wanted) THEN "T" ELSE "F"
           ELSE IF p.val.t = "arr" /\ ~fold THEN
                  IF \E j \in 1..Len(p.val.v) : p.val.v[j] = JStr(wanted) THEN "T" ELSE "F"
           ELSE "X"

\* !q.f || t.f?.toLowerCase().includes(q.f.toLowerCase()) and, with fold FALSE,
\* !q.f || t.f?.includes(q.f): "T" truthy, "F" falsy, "X" a thrown TypeError.
Clause(t, name, wanted, fold) ==
  IF wanted = <<>> THEN "T"
  ELSE LET p == Property(t, name)
       IN  IF p.throws THEN "X"
           ELSE IF p.val.t \in {"undef", "null"} THEN "F"
           ELSE IF p.val.t = "str" THEN
                  IF fold
                  THEN IF includes(toLowerCase(p.val.v), toLowerCase(wanted)) THEN "T" ELSE "F"
                  ELSE IF includes(p.val.v, wanted) THEN "T" ELSE "F"
           ELSE IF p.val.t = "arr" /\ ~fold THEN
                  IF \E j \in 1..Len(p.val.v) : p.val.v[j] = JStr(wanted) THEN "T" ELSE "F"
           ELSE "X"

\* a && b with JavaScript's short circuit
AndThen(a, b) == IF a = "T" THEN b ELSE a

Keeps(t, q) ==
  AndThen(Clause(t, "buyer", q.buyer, TRUE),
  AndThen(Clause(t, "seller", q.seller, TRUE),
  AndThen(Clause(t, "house_no", q.houseNumber, FALSE),
  AndThen(Clause(t, "survey_no", q.surveyNumber, FALSE),
          Clause(t, "document_no", q.documentNumber, FALSE)))))

\* A filter that gives the kept elements last first.
RECURSIVE FilterLoopReversed(_, _)
FilterLoopReversed(transactions, q) ==
  IF transactions = <<>> THEN <<>>
  ELSE IF Keeps(Head(transactions), q) = "T"
       THEN FilterLoopReversed(Tail(transactions), q) \o <<Head(transactions)>>
       ELSE FilterLoopReversed(Tail(transactions), q)

RECURSIVE FilterLoop(_, _)
FilterLoop(transactions, q) ==
  IF transactions = <<>> THEN <<>>
  ELSE IF Keeps(Head(transactions), q) = "T"
       THEN <<Head(transactions)>> \o FilterLoop(Tail(transactions), q)
       ELSE FilterLoop(Tail(transactions), q)

\* transactions.filter(...): throws when the callback throws for an element.
filterTransactions(transactions, q) ==
  IF \E j \in 1..Len(transactions) : Keeps(transactions[j], q) = "X"
  THEN [throws |-> TRUE, val |-> <<>>]
  ELSE [throws |-> FALSE, val |-> FilterLoop(transactions, q)]

\* --------------------------------- the record filter of /api/search-documents
\* Number.prototype.toString of a non-negative integer
RECURSIVE Digits(_)
Digits(n) == IF n < 10 THEN <<ToString(n)>> ELSE Digits(n \div 10) \o <<ToString(n % 10)>>

\* Array.prototype.toString of an array of strings: the elements joined by ","
RECURSIVE JoinComma(_)
JoinComma(a) ==
  IF a = <<>> THEN <<>>
  ELSE IF Len(a) = 1 THEN a[1].v
  ELSE a[1].v \o <<",">> \o JoinComma(Tail(a))

\* v is falsy: undefined, null, '' or 0
Falsy(v) ==
  \/ v.t \in {"undef", "null"}
  \/ v.t = "str" /\ v.v = <<>>
  \/ v.t = "num" /\ v.v = <<0>>

\* !f || (t.x && t.x.toLowerCase().includes(f.toLowerCase())) and, with fold
\* FALSE, !f || (t.x && t.x.toString().includes(f))
SearchClause(t, name, wanted, fold) ==
  IF wanted = <<>> THEN "T"
  ELSE LET p == Property(t, name)
       IN  IF p.throws THEN "X"
           ELSE IF Falsy(p.val) THEN "F"
           ELSE IF p.val.t = "str" THEN
                  IF fold
                  THEN IF includes(toLowerCase(p.val.v), toLowerCase(wanted)) THEN "T" ELSE "F"
                  ELSE IF includes(p.val.v, wanted) THEN "T" ELSE "F"
           ELSE IF fold THEN "X"
           ELSE IF p.val.t = "num" THEN
                  IF includes(Digits(p.val.v[1]), wanted) THEN "T" ELSE "F"
           ELSE IF p.val.t = "arr" THEN
                  IF includes(JoinComma(p.val.v), wanted) THEN "T" ELSE "F"
           ELSE IF includes(<<"[", "o", "b", "j", "e", "c", "t", " ", "O", "b", "j", "e", "c", "t", "]">>,
                            wanted) THEN "T" ELSE "F"

SearchMatches(t, q) ==
  AndThen(SearchClause(t, "buyer", q.buyer, TRUE),
  AndThen(SearchClause(t, "seller", q.seller, TRUE),
  AndThen(SearchClause(t, "house_no", q.houseNumber, FALSE),
  AndThen(SearchClause(t, "survey_no", q.surveyNumber, FALSE),
          SearchClause(t, "document_no", q.documentNumber, FALSE)))))

\* doc.parsed_data.some(...): the elements in order, up to the first that
\* matches or throws.
RECURSIVE SearchSome(_, _)
SearchSome(records, q) ==
  IF records = <<>> THEN "F"
  ELSE LET m == SearchMatches(Head(records), q)
       IN  IF m = "F" THEN SearchSome(Tail(records), q) ELSE m

\* A callback that keeps the documents with a matching record only.
SearchKeepsArraysOnly(parsed_data, q) ==
  IF q = NoFilter THEN "T"
  ELSE IF Falsy(parsed_data) \/ parsed_data.t # "arr" THEN "F"
  ELSE SearchSome(parsed_data.v, q)

\* The callback of data.filter, run when a filter is given: "T" the document
\* is kept, "F" it is dropped, "X" a TypeError is thrown.  Without a filter
\* filteredData = data.
SearchKeeps(parsed_data, q) ==
  IF q = NoFilter THEN "T"
  ELSE IF Falsy(parsed_data) \/ parsed_data.t # "arr" THEN "T"
  ELSE SearchSome(parsed_data.v, q)

\* ------------------------------------------------------------------- state
\* Activations: h1, h2 are invocations of the POST /api/process-document
\* handler, t1 is a direct caller of translateToEnglish, s1 an invocation of
\* the GET /api/search-documents handler, c1 a browser showing FileUpload.
Handlers == {"h1", "h2"}
Direct == {"t1"}
Searchers == {"s1"}
Clients == {"c1"}
Slots == Handlers \cup Direct \cup Searchers \cup Clients

DocIds == {"d1", "d2"}
Owner(d) == IF d = "d1" THEN "u1" ELSE "u2"

TextFields == {"original_text", "translated_text", "detected_language", "parsed_data"}

VARIABLES
  docs,        \* the documents table: DocIds -> row
  lastUpdate,  \* per row, the last update applied to it and the request that sent it
  pc,          \* per activation, the await it is suspended at
  req,         \* per handler, req.body
  loc,         \* per activation, its local constants; download: what the download
               \* answered; has: the steps taken since
  tasks,       \* per activation, the limit(...) promises of translateToEnglish
  fx,          \* per handler, the callGemini of extractTransactionFields
  writes,      \* per handler, the updates its current invocation has had applied
  resp,        \* per handler, the response of its current invocation
  before,      \* per handler, the row of its document when the request arrived
  serial,      \* per handler, the number of its current request
  nreq,        \* requests received so far
  unit         \* a function called on its own: its arguments and what it returned

server == <<docs, lastUpdate, pc, req, loc, tasks, fx, writes, resp, before, serial, nreq>>

vars == <<docs, lastUpdate, pc, req, loc, tasks, fx, writes, resp, before, serial, nreq, unit>>

\* The row FileUpload.processFile inserts.
UploadedRow(user) ==
  [user_id |-> user, processing_status |-> "processing", original_text |-> <<>>,
   translated_text |-> <<>>, detected_language |-> "", parsed_data |-> JNull]

Body(documentId, filePath, filters) ==
  [documentId |-> documentId, filePath |-> filePath, filters |-> filters]

NoLocals ==
  [originalText |-> <<>>, detected |-> "", translated |-> <<>>,
   transactions |-> <<>>, filtered |-> <<>>, error |-> <<>>, download |-> "",
   has |-> {}]

NoResponse == [status |-> 0, detected_language |-> "", chunks_translated |-> 0,
               transaction_count |-> 0, error |-> <<>>]

IdleCall == NewCall(FieldsPrompt(<<>>))

NoUpdate == [serial |-> 0, patch |-> [processing_status |-> "processing"]]

NoUnit == [fn |-> "", args |-> <<>>, ret |-> <<>>, done |-> FALSE]

\* The server after start-up, no request received, with the table holding rows.
StartedWith(rows) ==
  /\ docs = rows
  /\ lastUpdate = [d \in DocIds |-> NoUpdate]
  /\ pc = [i \in Slots |-> "idle"]
  /\ req = [i \in Slots |-> Body("", "", NoFilter)]
  /\ loc = [i \in Slots |-> NoLocals]
  /\ tasks = [i \in Slots |-> <<>>]
  /\ fx = [i \in Slots |-> IdleCall]
  /\ writes = [i \in Slots |-> <<>>]
  /\ resp = [i \in Slots |-> NoResponse]
  /\ before = [i \in Slots |-> UploadedRow("")]
  /\ serial = [i \in Slots |-> 0]
  /\ nreq = 0

Started == StartedWith([d \in DocIds |-> UploadedRow(Owner(d))])

Init == Started /\ unit = NoUnit

\* ---------------------------------------------------- the documents table
\* supabaseAdmin.from('documents').update(patch).eq('id', id): the columns the
\* patch names are set on the rows with that id, the others kept.
UpdateRow(row, patch) ==
  [f \in DOMAIN row |-> IF f \in DOMAIN patch THEN patch[f] ELSE row[f]]

ApplyUpdate(rows, id, patch) ==
  [d \in DOMAIN rows |-> IF d = id THEN UpdateRow(rows[d], patch) ELSE rows[d]]

ProcessingPatch == [processing_status |-> "processing"]

\* The update as it was before parsed_data was stored.
CompletedPatchWithoutRecords(l) ==
  [original_text |-> l.originalText, translated_text |-> l.translated,
   detected_language |-> l.detected, processing_status |-> "completed"]

CompletedPatch(l) ==
  [original_text |-> l.originalText, translated_text |-> l.translated,
   detected_language |-> l.detected, parsed_data |-> JArr(l.filtered),
   processing_status |-> "completed"]

\* A catch block that leaves the status as it is.
FailedPatchKeepingStatus == [processing_status |-> "processing"]

\* A catch block that also clears the texts.
FailedPatchClearingTexts ==
  [processing_status |-> "failed", original_text |-> <<>>, translated_text |-> <<>>]

FailedPatch == [processing_status |-> "failed"]

\* A store that refuses a status-only update of a row that is completed.
WriteUnlessCompleted(i, patch) ==
  /\ docs' = IF /\ docs[req[i].documentId].processing_status = "completed"
                /\ DOMAIN patch = {"processing_status"}
             THEN docs
             ELSE ApplyUpdate(docs, req[i].documentId, patch)
  /\ lastUpdate' = [d \in DocIds |->
                      IF d = req[i].documentId
                      THEN [serial |-> serial[i], patch |-> patch]
                      ELSE lastUpdate[d]]
  /\ writes' = [writes EXCEPT ![i] = Append(@, patch)]

\* The update of activation i is applied by the Document Store.
Write(i, patch) ==
  /\ docs' = ApplyUpdate(docs, req[i].documentId, patch)
  /\ lastUpdate' = [d \in DocIds |->
                      IF d = req[i].documentId
                      THEN [serial |-> serial[i], patch |-> patch]
                      ELSE lastUpdate[d]]
  /\ writes' = [writes EXCEPT ![i] = Append(@, patch)]

\* No fetch of activation i is in flight and none is scheduled.
CallQuiet(c) == c.phase \in {"queued", "done"}
Quiescent(i) == CallQuiet(fx[i]) /\ \A k \in 1..Len(tasks[i]) : CallQuiet(tasks[i][k])

\* ------------------------------------------------------ translateToEnglish
\* The retry operations that still have a fetch or a timer pending.
Live(c) == c.phase \in {"fetch", "backoff"}
LiveOps(ts) == SelectSeq(ts, Live)

\* What stays of the calls of a translateToEnglish that has returned: in the
\* handler, which goes on, only the retry operations still alive; for a direct
\* caller the returned call is kept as it ended.
Retained(i, ts) == IF i \in Handlers THEN LiveOps(ts) ELSE ts

\* translateToEnglish awaiting Promise.all(tasks): a rejected chunk rejects
\* the translation, and the handler's catch block is entered.
TranslateReturnsOrRejects(i, l, translated, ts) ==
  /\ tasks' = [tasks EXCEPT ![i] = Retained(i, ts)]
  /\ IF i \in Handlers /\ \E k \in 1..Len(ts) : ts[k].settled = "rejected"
     THEN /\ loc' = [loc EXCEPT ![i] = [l EXCEPT !.error = <<"chunk failed">>]]
          /\ pc' = [pc EXCEPT ![i] = "savingFailed"]
          /\ UNCHANGED fx
     ELSE /\ loc' = [loc EXCEPT ![i] =
                       [l EXCEPT !.translated = translated,
                                 !.has = @ \cup {"translated"}
                                           \cup (IF i \in Handlers THEN {"callGemini"} ELSE {})]]
          /\ IF i \in Handlers
             THEN /\ fx' = [fx EXCEPT ![i] = IssueFetch(NewCall(FieldsPrompt(translated)))]
                  /\ pc' = [pc EXCEPT ![i] = "extractingFields"]
             ELSE /\ pc' = [pc EXCEPT ![i] = "returned"]
                  /\ UNCHANGED fx

\* translateToEnglish returns translated to its caller; ts are its tasks.
\* In the handler the caller goes on to extractTransactionFields, which
\* issues its callGemini before the next await.
TranslateReturns(i, l, translated, ts) ==
  /\ tasks' = [tasks EXCEPT ![i] = Retained(i, ts)]
  /\ loc' = [loc EXCEPT ![i] =
               [l EXCEPT !.translated = translated,
                         !.has = @ \cup {"translated"}
                                   \cup (IF i \in Handlers THEN {"callGemini"} ELSE {})]]
  /\ IF i \in Handlers
     THEN /\ fx' = [fx EXCEPT ![i] = IssueFetch(NewCall(FieldsPrompt(translated)))]
          /\ pc' = [pc EXCEPT ![i] = "extractingFields"]
     ELSE /\ pc' = [pc EXCEPT ![i] = "returned"]
          /\ UNCHANGED fx

\* translateToEnglish without its  if (!text) return '' : the empty text is
\* sent as one empty chunk.
EnterTranslateEmptyChunk(i, l, text, sourceLang) ==
  /\ tasks' = [tasks EXCEPT ![i] =
                 MakeTasks(IF text = <<>> THEN <<text>> ELSE chunkText(text, CHUNK_SIZE),
                           sourceLang)]
  /\ loc' = [loc EXCEPT ![i] = [l EXCEPT !.has = @ \cup {"callGemini"}]]
  /\ pc' = [pc EXCEPT ![i] = "translating"]
  /\ UNCHANGED fx

\* translateToEnglish(text, sourceLang) up to its first await.
EnterTranslate(i, l, text, sourceLang) ==
  IF text = <<>>
  THEN TranslateReturns(i, l, <<>>, <<>>)
  ELSE /\ tasks' = [tasks EXCEPT ![i] = MakeTasks(chunkText(text, CHUNK_SIZE), sourceLang)]
       /\ loc' = [loc EXCEPT ![i] = [l EXCEPT !.has = @ \cup {"callGemini"}]]
       /\ pc' = [pc EXCEPT ![i] = "translating"]
       /\ UNCHANGED fx

\* A caller other than the handler calls translateToEnglish(text, sourceLang).
CallTranslate(i, text, sourceLang) ==
  /\ i \in Direct
  /\ pc[i] = "idle"
  /\ EnterTranslate(i, [NoLocals EXCEPT !.originalText = text, !.detected = sourceLang],
                    text, sourceLang)
  /\ UNCHANGED <<docs, lastUpdate, req, writes, resp, before, serial, nreq, unit>>

\* The endpoint answers the fetch of chunk k's callGemini with r.  When the
\* task settles p-limit starts the next queued one; when it was the last to
\* settle, Promise.allSettled resolves and translateToEnglish returns.
ChunkAnswer(i, k, r) ==
  /\ k \in 1..Len(tasks[i])
  /\ tasks[i][k].phase = "fetch"
  /\ LET ts == StartQueued([tasks[i] EXCEPT ![k] = OnAnswer(@, r)])
     IN  IF pc[i] = "translating" /\ AllSettled(ts)
         THEN TranslateReturns(i, loc[i], FinalResult(ts), ts)
         ELSE /\ tasks' = [tasks EXCEPT ![i] = IF pc[i] = "translating" THEN ts ELSE Retained(i, ts)]
              /\ UNCHANGED <<loc, fx, pc>>
  /\ UNCHANGED <<docs, lastUpdate, req, writes, resp, before, serial, nreq, unit>>

\* The backoff timer of chunk k's retry operation fires.
ChunkTimer(i, k) ==
  /\ k \in 1..Len(tasks[i])
  /\ tasks[i][k].phase = "backoff"
  /\ tasks' = [tasks EXCEPT ![i][k] = OnTimer(@)]
  /\ UNCHANGED <<docs, lastUpdate, pc, req, loc, fx, writes, resp, before, serial, nreq, unit>>

\* ------------------------------------------- POST /api/process-document
\* A check of documentId alone.
ValidBodyIdOnly(body) == body.documentId # ""

\* if (!documentId || !filePath) return res.status(400)
ValidBody(body) == body.documentId # "" /\ body.filePath # ""

\* The catch block is entered with err.
Throw(i, l, message) ==
  /\ loc' = [loc EXCEPT ![i] = [l EXCEPT !.error = message]]
  /\ pc' = [pc EXCEPT ![i] = "savingFailed"]

\* A request arrives.  An activation takes its next request once it has
\* responded and its retry timers have run out.
Receive(i, body) ==
  /\ i \in Handlers
  /\ pc[i] \in {"idle", "responded"}
  /\ Quiescent(i)
  /\ nreq < MaxRequests
  /\ nreq' = nreq + 1
  /\ serial' = [serial EXCEPT ![i] = nreq + 1]
  /\ req' = [req EXCEPT ![i] = body]
  /\ loc' = [loc EXCEPT ![i] = NoLocals]
  /\ tasks' = [tasks EXCEPT ![i] = <<>>]
  /\ fx' = [fx EXCEPT ![i] = IdleCall]
  /\ writes' = [writes EXCEPT ![i] = <<>>]
  /\ IF ValidBody(body)
     THEN /\ pc' = [pc EXCEPT ![i] = "marking"]
          /\ resp' = [resp EXCEPT ![i] = NoResponse]
          /\ before' = [before EXCEPT ![i] = docs[body.documentId]]
     ELSE /\ pc' = [pc EXCEPT ![i] = "responded"]
          /\ resp' = [resp EXCEPT ![i] = [NoResponse EXCEPT !.status = 400]]
          /\ UNCHANGED before
  /\ UNCHANGED <<docs, lastUpdate, unit>>

\* The update that sets processing is applied; the handler goes on to the
\* download.
MarkProcessing(i) ==
  /\ pc[i] = "marking"
  /\ Write(i, ProcessingPatch)
  /\ pc' = [pc EXCEPT ![i] = "downloading"]
  /\ UNCHANGED <<req, loc, tasks, fx, resp, before, serial, nreq, unit>>

\* The download without its  if (error) throw error.
DownloadIgnoringError(i, error) ==
  /\ pc[i] = "downloading"
  /\ pc' = [pc EXCEPT ![i] = "extracting"]
  /\ loc' = [loc EXCEPT ![i].download = IF error THEN "error" ELSE "data"]
  /\ UNCHANGED <<docs, lastUpdate, req, tasks, fx, writes, resp, before, serial, nreq, unit>>

\* storage.download answers { data, error }:  if (error) throw error
Download(i, error) ==
  /\ pc[i] = "downloading"
  /\ IF error
     THEN Throw(i, [loc[i] EXCEPT !.download = "error"], <<"download failed">>)
     ELSE /\ pc' = [pc EXCEPT ![i] = "extracting"]
          /\ loc' = [loc EXCEPT ![i].download = "data"]
  /\ UNCHANGED <<docs, lastUpdate, req, tasks, fx, writes, resp, before, serial, nreq, unit>>

\* extractTextFromBuffer answers: parser.getText() threw, or gave out.text;
\* code3 is franc's answer for the text.  The handler detects the language
\* and enters translateToEnglish.
ExtractText(i, out, code3) ==
  /\ pc[i] = "extracting"
  /\ IF out.throws
     THEN /\ Throw(i, loc[i], <<"pdf-parse failed">>)
          /\ UNCHANGED <<tasks, fx>>
     ELSE LET originalText == TextTrim(out.text)
              detected     == detectLangISO1(originalText, code3)
          IN  EnterTranslate(i, [loc[i] EXCEPT !.originalText = originalText,
                                               !.detected = detected,
                                               !.has = @ \cup {"originalText", "detected"}],
                             originalText, detected)
  /\ UNCHANGED <<docs, lastUpdate, req, writes, resp, before, serial, nreq, unit>>

\* The endpoint answers the fetch of extractTransactionFields' callGemini.
\* When the call settles the handler resumes: a rejection is thrown to the
\* catch block; a response is parsed, the records are filtered and the
\* completed update is issued.
FieldsAnswer(i, r) ==
  /\ fx[i].phase = "fetch"
  /\ LET c == OnAnswer(fx[i], r)
     IN  /\ fx' = [fx EXCEPT ![i] = IF Live(c) THEN c ELSE IdleCall]
         /\ IF pc[i] = "extractingFields" /\ c.settled # "pending"
            THEN IF c.settled = "rejected"
                 THEN Throw(i, loc[i], c.value)
                 ELSE LET transactions == ParseTransactions(c.value)
                          filtered     == filterTransactions(transactions, req[i].filters)
                          l            == [loc[i] EXCEPT !.transactions = transactions,
                                                         !.has = @ \cup {"transactions"}]
                      IN  IF filtered.throws
                          THEN Throw(i, l, <<"TypeError">>)
                          ELSE /\ loc' = [loc EXCEPT ![i] =
                                            [l EXCEPT !.filtered = filtered.val,
                                                      !.has = @ \cup {"filtered"}]]
                               /\ pc' = [pc EXCEPT ![i] = "savingCompleted"]
            ELSE UNCHANGED <<loc, pc>>
  /\ UNCHANGED <<docs, lastUpdate, req, tasks, writes, resp, before, serial, nreq, unit>>

\* The backoff timer of extractTransactionFields' retry operation fires.
FieldsTimer(i) ==
  /\ fx[i].phase = "backoff"
  /\ fx' = [fx EXCEPT ![i] = OnTimer(@)]
  /\ UNCHANGED <<docs, lastUpdate, pc, req, loc, tasks, writes, resp, before, serial, nreq, unit>>

\* The update of the try block's end is applied.
SaveCompleted(i) ==
  /\ pc[i] = "savingCompleted"
  /\ Write(i, CompletedPatch(loc[i]))
  /\ pc' = [pc EXCEPT ![i] = "sending200"]
  /\ UNCHANGED <<req, loc, tasks, fx, resp, before, serial, nreq, unit>>

\* A catch block that saves what the invocation has computed so far.
SaveFailedWithTexts(i) ==
  /\ pc[i] = "savingFailed"
  /\ Write(i, [processing_status |-> "failed", original_text |-> loc[i].originalText,
               detected_language |-> loc[i].detected, translated_text |-> loc[i].translated])
  /\ pc' = [pc EXCEPT ![i] = "sending500"]
  /\ UNCHANGED <<req, loc, tasks, fx, resp, before, serial, nreq, unit>>

\* The update of the catch block is applied.
SaveFailed(i) ==
  /\ pc[i] = "savingFailed"
  /\ Write(i, FailedPatch)
  /\ pc' = [pc EXCEPT ![i] = "sending500"]
  /\ UNCHANGED <<req, loc, tasks, fx, resp, before, serial, nreq, unit>>

\* Math.ceil(n / d)
Ceil(n, d) == (n + d - 1) \div d

\* A catch block that answers res.json({ error }) without status(500).
ResponseAlways200(at, l) ==
  [status |-> 200, detected_language |-> l.detected,
   chunks_translated |-> Ceil(TextLen(l.originalText), CHUNK_SIZE),
   transaction_count |-> Len(l.filtered), error |-> l.error]

\* res.json({...}) of the try block, res.status(500).json({ error }) of the
\* catch block.
ResponseAfter(at, l) ==
  IF at = "sending200"
  THEN [status |-> 200, detected_language |-> l.detected,
        chunks_translated |-> Ceil(TextLen(l.originalText), CHUNK_SIZE),
        transaction_count |-> Len(l.filtered), error |-> <<>>]
  ELSE [NoResponse EXCEPT !.status = 500, !.error = l.error]

\* The handler resumes after its last update and responds.
Respond(i) ==
  /\ pc[i] \in {"sending200", "sending500"}
  /\ resp' = [resp EXCEPT ![i] = ResponseAfter(pc[i], loc[i])]
  /\ pc' = [pc EXCEPT ![i] = "responded"]
  /\ UNCHANGED <<docs, lastUpdate, req, loc, tasks, fx, writes, before, serial, nreq, unit>>

\* ------------------------------------------- GET /api/search-documents
\* req.query of a search; the empty string stands for a parameter not given.
SearchQuery(userId, query, filters) ==
  [userId |-> userId, query |-> query, filters |-> filters]

\* The rows in the order of .order('created_at', { ascending: false }).
NewestFirst == <<"d2", "d1">>

Filename(d) == IF d = "d1" THEN <<"d", "e", "e", "d">> ELSE <<"w", "i", "l", "l">>

\* column.ilike.%query%
ilike(column, query) == includes(toLowerCase(column), toLowerCase(query))

\* The select without  .eq('processing_status', 'completed').
BaseMatchAnyStatus(rows, d, userId, query) ==
  /\ rows[d].user_id = userId
  /\ query # <<>> => ilike(Filename(d), query) \/ ilike(rows[d].translated_text, query)

\* .eq('user_id', userId).eq('processing_status', 'completed') and, with a
\* query, .or(filename.ilike.%query%, translated_text.ilike.%query%)
BaseMatch(rows, d, userId, query) ==
  /\ rows[d].user_id = userId
  /\ rows[d].processing_status = "completed"
  /\ query # <<>> => ilike(Filename(d), query) \/ ilike(rows[d].translated_text, query)

Selected(rows, ids, userId, query) ==
  LET Matches(d) == BaseMatch(rows, d, userId, query)
  IN  [k \in 1..Len(SelectSeq(ids, Matches)) |->
         [id |-> SelectSeq(ids, Matches)[k], row |-> rows[SelectSeq(ids, Matches)[k]]]]

\* data.filter(doc => ...): the documents in order; a TypeError thrown by the
\* callback ends the filter.
RECURSIVE FilterDocuments(_, _)
FilterDocuments(data, q) ==
  IF data = <<>> THEN [throws |-> FALSE, val |-> <<>>]
  ELSE LET k    == SearchKeeps(Head(data).row.parsed_data, q)
           rest == FilterDocuments(Tail(data), q)
       IN  IF k = "X" \/ rest.throws THEN [throws |-> TRUE, val |-> <<>>]
           ELSE IF k = "T" THEN [throws |-> FALSE, val |-> <<Head(data)>> \o rest.val]
           ELSE rest

SearchResponse(status, documents, error) ==
  [status |-> status, documents |-> documents, error |-> error]

\* A search request is handled: 400 without userId; otherwise the database
\* answers the select (with an error, or with the rows as they are now), the
\* handler filters them and responds.  seen: the updates the rows had when
\* the select ran.
SearchDocuments(s, query, dbError) ==
  /\ s \in Searchers
  /\ req' = [req EXCEPT ![s] = query]
  /\ pc' = [pc EXCEPT ![s] = "responded"]
  /\ IF query.userId = ""
     THEN /\ resp' = [resp EXCEPT ![s] = SearchResponse(400, <<>>, <<"userId is required">>)]
          /\ loc' = [loc EXCEPT ![s] = [data |-> <<>>, seen |-> lastUpdate]]
     ELSE IF dbError
     THEN /\ resp' = [resp EXCEPT ![s] = SearchResponse(500, <<>>, <<"select failed">>)]
          /\ loc' = [loc EXCEPT ![s] = [data |-> <<>>, seen |-> lastUpdate]]
     ELSE LET data         == Selected(docs, NewestFirst, query.userId, query.query)
              filteredData == FilterDocuments(data, query.filters)
          IN  /\ loc' = [loc EXCEPT ![s] = [data |-> data, seen |-> lastUpdate]]
              /\ resp' = [resp EXCEPT ![s] =
                            IF filteredData.throws
                            THEN SearchResponse(500, <<>>, <<"TypeError">>)
                            ELSE SearchResponse(200, filteredData.val, <<>>)]
  /\ UNCHANGED <<docs, lastUpdate, tasks, fx, writes, before, serial, nreq, unit>>

\* ------------------------------------------------- FileUpload (the client)
\* A dropped file: the type the browser reports for it, the number of pages
\* pdfjs finds in it, and whether pdfjs can read it at all.
PDF == "application/pdf"

File(type, numPages, readable) ==
  [type |-> type, numPages |-> numPages, readable |-> readable]

PAGE_LIMIT == 2

\* checkPdfPageCount(file): pdf.numPages, or throws 'Failed to read PDF file'.
checkPdfPageCount(file) ==
  IF file.readable THEN [throws |-> FALSE, val |-> file.numPages]
  ELSE [throws |-> TRUE, val |-> 0]

\* The component after a drop of acceptedFiles by user ("": not signed in):
\* next is the file the loop of onDropWithValidation is at; proc[k] is where
\* the processFile of file k stands; uploads, inserts and posts are the files
\* for which the storage upload, the row insert and the process-document
\* request were made.
Dropped(acceptedFiles, user) ==
  [user |-> user, next |-> 1, error |-> "",
   proc |-> [k \in 1..Len(acceptedFiles) |-> "none"],
   status |-> [k \in 1..Len(acceptedFiles) |-> ""],
   uploads |-> {}, inserts |-> {}, posts |-> {}]

\* processFile(newFile) up to its first await: throws (and catches) when no
\* user is signed in, otherwise makes the storage upload.
processFile(l, k) ==
  IF l.user = ""
  THEN [l EXCEPT !.proc[k] = "error", !.status[k] = "error", !.error = "Failed to upload"]
  ELSE [l EXCEPT !.proc[k] = "upload", !.uploads = @ \cup {k}]

\* One iteration of the loop: the page count of a file of type
\* application/pdf is checked, a file over the limit is skipped with an
\* error message, a file pdfjs cannot read is reported, and any other file is
\* added to uploadFiles and handed to processFile.
LoopBody(l, file, k) ==
  LET pageCount == checkPdfPageCount(file)
      newFile   == [l EXCEPT !.status[k] = "uploading", !.error = ""]
  IN  IF file.type = PDF /\ pageCount.throws
      THEN [l EXCEPT !.proc[k] = "unreadable", !.error = "Failed to process file"]
      ELSE IF file.type = PDF /\ pageCount.val > PAGE_LIMIT
      THEN [l EXCEPT !.proc[k] = "skipped", !.error = "exceeds the 2-page limit"]
      ELSE processFile(newFile, k)

\* onDrop: react-dropzone calls onDropWithValidation(acceptedFiles).
onDropWithValidation(c, acceptedFiles, user) ==
  /\ c \in Clients
  /\ pc[c] = "idle"
  /\ req' = [req EXCEPT ![c] = acceptedFiles]
  /\ loc' = [loc EXCEPT ![c] = Dropped(acceptedFiles, user)]
  /\ pc' = [pc EXCEPT ![c] = IF acceptedFiles = <<>> THEN "dropped" ELSE "validating"]
  /\ UNCHANGED <<docs, lastUpdate, tasks, fx, writes, resp, before, serial, nreq, unit>>

\* The loop goes through its next file.
ValidateNext(c) ==
  /\ c \in Clients
  /\ pc[c] = "validating"
  /\ LET k == loc[c].next
     IN  /\ loc' = [loc EXCEPT ![c] = [LoopBody(loc[c], req[c][k], k) EXCEPT !.next = k + 1]]
         /\ pc' = [pc EXCEPT ![c] = IF k = Len(req[c]) THEN "dropped" ELSE "validating"]
  /\ UNCHANGED <<docs, lastUpdate, req, tasks, fx, writes, resp, before, serial, nreq, unit>>

\* supabase.storage.from('pdfs').upload answers for file k; without an error
\* processFile makes the insert of the document row.
UploadAnswer(c, k, uploadError) ==
  /\ c \in Clients
  /\ pc[c] # "idle"
  /\ k \in 1..Len(req[c])
  /\ loc[c].proc[k] = "upload"
  /\ loc' = [loc EXCEPT ![c] =
               IF uploadError
               THEN [@ EXCEPT !.proc[k] = "error", !.status[k] = "error",
                              !.error = "Failed to upload"]
               ELSE [@ EXCEPT !.proc[k] = "insert", !.inserts = @ \cup {k}]]
  /\ UNCHANGED <<docs, lastUpdate, pc, req, tasks, fx, writes, resp, before, serial, nreq, unit>>

\* The insert answers for file k; without an error the file is shown as
\* completed and processFile posts to /api/process-document.
InsertAnswer(c, k, docError) ==
  /\ c \in Clients
  /\ pc[c] # "idle"
  /\ k \in 1..Len(req[c])
  /\ loc[c].proc[k] = "insert"
  /\ loc' = [loc EXCEPT ![c] =
               IF docError
               THEN [@ EXCEPT !.proc[k] = "error", !.status[k] = "error",
                              !.error = "Failed to upload"]
               ELSE [@ EXCEPT !.proc[k] = "fetch", !.status[k] = "completed",
                              !.posts = @ \cup {k}]]
  /\ UNCHANGED <<docs, lastUpdate, pc, req, tasks, fx, writes, resp, before, serial, nreq, unit>>

\* The server answers the request for file k, or the fetch fails: logged only.
FetchAnswer(c, k) ==
  /\ c \in Clients
  /\ pc[c] # "idle"
  /\ k \in 1..Len(req[c])
  /\ loc[c].proc[k] = "fetch"
  /\ loc' = [loc EXCEPT ![c].proc[k] = "done"]
  /\ UNCHANGED <<docs, lastUpdate, pc, req, tasks, fx, writes, resp, before, serial, nreq, unit>>

\* ------------------------------------------------------------ environment
\* What pdf-parse gives for a file: whitespace only, or n chunks of text.
LongText(n) == <<Run("a", (n - 1) * CHUNK_SIZE + 1)>>
Extracted(text) == [throws |-> FALSE, text |-> text]
ExtractionThrows == [throws |-> TRUE, text |-> <<>>]

Code3 == {"tam", "eng", "und"}

ChunkAnswers ==
  {Answer(200, <<"x", " ">>), Answer(400, <<"bad">>), Answer(500, <<"oops">>)}

RecordsText == <<"[", "{kumar}", ",", "{singh}", "]">>
FencedText == FenceJson \o <<"\n", "[", "{odd}", "]", "\n">> \o Fence

FieldsAnswers ==
  {Answer(200, RecordsText), Answer(200, FencedText), Answer(200, <<"x">>),
   Answer(400, <<"bad">>), Answer(500, <<"oops">>)}

\* Requests name document d1; d2 is another user's row.
Bodies ==
  {Body(d, f, q) : d \in {"d1", ""}, f \in {"u1/doc.pdf", ""},
                   q \in {NoFilter, Query(<<"k">>, <<>>, <<>>, <<>>, <<>>)}}

\* ----------------------------------------------------------- specifications
PipelineOutputs ==
  {ExtractionThrows, Extracted(<<Run(" ", 2)>>), Extracted(<<Run("a", 25), Run("\n", 1)>>)}

Handler(i) ==
  \/ \E body \in Bodies : Receive(i, body)
  \/ MarkProcessing(i)
  \/ \E error \in BOOLEAN : Download(i, error)
  \/ \E out \in PipelineOutputs, code3 \in Code3 : ExtractText(i, out, code3)
  \/ \E k \in 1..Len(tasks[i]), r \in ChunkAnswers : ChunkAnswer(i, k, r)
  \/ \E k \in 1..Len(tasks[i]) : ChunkTimer(i, k)
  \/ \E r \in FieldsAnswers : FieldsAnswer(i, r)
  \/ FieldsTimer(i)
  \/ SaveCompleted(i)
  \/ SaveFailed(i)
  \/ Respond(i)

\* One handler activation: requests are processed one after the other.
Next == Handler("h1")

Spec == Init /\ [][Next]_vars

\* translateToEnglish called directly, on texts of up to MaxChunks chunks; the
\* endpoint translates a chunk or refuses it.
Languages == {"ta", "en", "auto"}

TranslateTexts == {<<>>} \cup {LongText(n) : n \in 1..MaxChunks}

TranslateAnswers ==
  {Answer(200, <<"x", " ">>), Answer(200, <<"y">>), Answer(400, <<"bad">>)}

NextTranslate ==
  \/ \E text \in TranslateTexts, sourceLang \in Languages : CallTranslate("t1", text, sourceLang)
  \/ \E k \in 1..Len(tasks["t1"]), r \in TranslateAnswers : ChunkAnswer("t1", k, r)
  \/ \E k \in 1..Len(tasks["t1"]) : ChunkTimer("t1", k)

SpecTranslate == Init /\ [][NextTranslate]_vars

\* translateToEnglish called on one or two chunks; the endpoint answers with
\* any status, or the fetch fails.
RetryAnswers ==
  {Answer(200, <<"x", " ">>), Answer(400, <<"bad">>), Answer(404, <<"gone">>),
   Answer(500, <<"oops">>), Answer(503, <<"busy">>), Answer(0, <<>>)}

NextRetry ==
  \/ \E text \in {LongText(1), LongText(2)} : CallTranslate("t1", text, "en")
  \/ \E k \in 1..Len(tasks["t1"]), r \in RetryAnswers : ChunkAnswer("t1", k, r)
  \/ \E k \in 1..Len(tasks["t1"]) : ChunkTimer("t1", k)

SpecRetry == Init /\ [][NextRetry]_vars

\* translateToEnglish called on a text of one chunk more than p-limit admits
\* at once; the endpoint refuses the first chunk and translates the others.
FanOutAnswers(k) ==
  IF k = 1 THEN {Answer(200, <<"x">>), Answer(400, <<"bad">>)} ELSE {Answer(200, <<"x">>)}

NextFanOut ==
  \/ CallTranslate("t1", LongText(CONCURRENCY + 1), "ta")
  \/ \E k \in 1..Len(tasks["t1"]) : \E r \in FanOutAnswers(k) : ChunkAnswer("t1", k, r)
  \/ \E k \in 1..Len(tasks["t1"]) : ChunkTimer("t1", k)

SpecFanOut == Init /\ [][NextFanOut]_vars

\* chunkText called on its own, on short texts with small sizes and on long
\* texts with the default size.
Chars == {"a", "b"}

Runs == {Run(c, n) : c \in Chars, n \in 1..MaxRun}

RECURSIVE TextsOf(_)
TextsOf(n) ==
  IF n = 0 THEN {<<>>}
  ELSE TextsOf(n - 1) \cup {Append(t, r) : t \in {u \in TextsOf(n - 1) : Len(u) = n - 1}, r \in Runs}

ChunkTextCalls ==
  {[fn |-> "chunkText", args |-> [text |-> t, size |-> z], ret |-> <<>>, done |-> FALSE] :
     t \in TextsOf(MaxRuns), z \in 1..MaxSize}
  \cup
  {[fn |-> "chunkText", args |-> [text |-> LongText(n), size |-> CHUNK_SIZE],
    ret |-> <<>>, done |-> FALSE] : n \in 1..MaxChunks}

Return(value) ==
  /\ ~unit.done
  /\ unit' = [unit EXCEPT !.ret = value, !.done = TRUE]
  /\ UNCHANGED server

Call_chunkText ==
  /\ unit.fn = "chunkText"
  /\ Return(chunkText(unit.args.text, unit.args.size))

InitChunkText == Started /\ unit \in ChunkTextCalls

SpecChunkText == InitChunkText /\ [][Call_chunkText]_vars

\* extractTransactionFields from the response of its callGemini on: responses
\* that are the text of a JSON value (JSON.stringify), bare or inside a fence,
\* and responses that are no JSON text.
Elements ==
  {JObj(ObjectOf(tok)) : tok \in ObjTokens}
  \cup {JNum(7), JNull, JStr(<<"a">>), JStr(<<"a">> \o Fence \o <<"b">>), JArr(<<>>)}

RECURSIVE ArraysOf(_)
ArraysOf(n) ==
  IF n = 0 THEN {<<>>}
  ELSE ArraysOf(n - 1) \cup {Append(a, e) : a \in {b \in ArraysOf(n - 1) : Len(b) = n - 1},
                                             e \in Elements}

Values == Elements \cup {JArr(a) : a \in ArraysOf(MaxElems)}

RECURSIVE Stringify(_)
RECURSIVE StringifyElements(_)
Stringify(v) ==
  CASE v.t = "arr" -> <<"[">> \o StringifyElements(v.v) \o <<"]">>
    [] v.t = "obj" -> <<CHOOSE tok \in ObjTokens : ObjectOf(tok) = v.v>>
    [] v.t = "num" -> <<"7">>
    [] v.t = "str" -> <<"\"">> \o v.v \o <<"\"">>
    [] OTHER -> <<"null">>

StringifyElements(a) ==
  IF a = <<>> THEN <<>>
  ELSE IF Len(a) = 1 THEN Stringify(a[1])
  ELSE Stringify(a[1]) \o <<",", " ">> \o StringifyElements(Tail(a))

Wraps == {"bare", "fence", "fence json"}

Wrapped(text, wrap) ==
  CASE wrap = "fence" -> Fence \o text \o Fence
    [] wrap = "fence json" -> FenceJson \o <<"\n">> \o text \o <<"\n">> \o Fence
    [] OTHER -> text

NoJsonTexts ==
  {<<>>, <<"x">>, <<"[">>, <<"[", "{kumar}">>, <<"[", "{kumar}", ",", "]">>,
   <<"[", "]", "[", "]">>, <<"{kumar}", "]">>, <<"\"", "a">>, <<"[", "x", "]">>}

\* value: what the text denotes, JUndef for a text that is no JSON.
FieldsResponses ==
  {[response |-> Wrapped(Stringify(v), w), wrap |-> w, text |-> Stringify(v), value |-> v] :
     v \in Values, w \in Wraps}
  \cup
  {[response |-> Wrapped(t, w), wrap |-> w, text |-> t, value |-> JUndef] :
     t \in NoJsonTexts, w \in Wraps}

ParseCalls ==
  {[fn |-> "extractTransactionFields", args |-> r, ret |-> <<>>, done |-> FALSE] :
     r \in FieldsResponses}

Call_extractTransactionFields ==
  /\ unit.fn = "extractTransactionFields"
  /\ Return(ParseTransactions(unit.args.response))

InitParse == Started /\ unit \in ParseCalls

SpecParse == InitParse /\ [][Call_extractTransactionFields]_vars

\* detectLangISO1 on texts around the minimum length, with white space before
\* and after; franc answers any code.  core: the characters between the
\* leading and the trailing white space.
Pad(c, n) == IF n = 0 THEN <<>> ELSE <<Run(c, n)>>

Padded(before_, core, after_) == Pad(" ", before_) \o core \o Pad("\n", after_)

Cores ==
  {Pad("a", n) : n \in 0..1 \cup (MIN_LENGTH - MaxPad)..(MIN_LENGTH + MaxPad)}
  \cup {<<Run("a", 9), Run(" ", n), Run("b", 9)>> : n \in 1..MaxPad}

DetectCodes == Code3 \cup {"hin", "fra"}

DetectCalls ==
  {[fn |-> "detectLangISO1",
    args |-> [text |-> Padded(b, core, a), core |-> TextLen(core), code3 |-> c],
    ret |-> <<>>, done |-> FALSE] :
     core \in Cores, b \in 0..MaxPad, a \in 0..MaxPad, c \in DetectCodes}

Call_detectLangISO1 ==
  /\ unit.fn = "detectLangISO1"
  /\ Return(detectLangISO1(unit.args.text, unit.args.code3))

InitDetect == Started /\ unit \in DetectCalls

SpecDetect == InitDetect /\ [][Call_detectLangISO1]_vars

\* filterTransactions, and the record filter of the search, on arrays of up to
\* MaxElems parsed elements with each filter given or not.
FilterElements == {JObj(ObjectOf(tok)) : tok \in ObjTokens} \cup {JNull, JStr(<<"a">>)}

RECURSIVE RecordsOf(_)
RecordsOf(n) ==
  IF n = 0 THEN {<<>>}
  ELSE RecordsOf(n - 1) \cup {Append(a, e) : a \in {b \in RecordsOf(n - 1) : Len(b) = n - 1},
                                              e \in FilterElements}

Queries ==
  {Query(b, s_, h, v, d) : b \in {<<>>, <<"k">>}, s_ \in {<<>>, <<"S">>},
                          h \in {<<>>, <<"1">>}, v \in {<<>>, <<"1">>}, d \in {<<>>, <<"d">>}}

FilterCalls ==
  {[fn |-> f, args |-> [transactions |-> a, q |-> q], ret |-> <<>>, done |-> FALSE] :
     f \in {"filterTransactions", "search"}, a \in RecordsOf(MaxElems), q \in Queries}

Call_filterTransactions ==
  /\ unit.fn = "filterTransactions"
  /\ Return(filterTransactions(unit.args.transactions, unit.args.q))

Call_searchFilter ==
  /\ unit.fn = "search"
  /\ Return(SearchKeeps(JArr(unit.args.transactions), unit.args.q))

NextFilter == Call_filterTransactions \/ Call_searchFilter

InitFilter == Started /\ unit \in FilterCalls

SpecFilter == InitFilter /\ [][NextFilter]_vars

\* Searches while document d1 is processed and processed again; d2 is a row
\* as an earlier run or another writer left it.
CompletedRow(user, parsed_data) ==
  [user_id |-> user, processing_status |-> "completed", original_text |-> <<Run("a", 25)>>,
   translated_text |-> <<"x">>, detected_language |-> "ta", parsed_data |-> parsed_data]

StoredRecords ==
  {JNull, JObj(ObjectOf("{kumar}")), JArr(<<>>), JArr(<<JObj(ObjectOf("{kumar}"))>>),
   JArr(<<JObj(ObjectOf("{singh}")), JNull>>), JArr(<<JObj(ObjectOf("{odd}"))>>)}

StoredRows ==
  {CompletedRow(u, p) : u \in {"u1", "u2"}, p \in StoredRecords}
  \cup {UploadedRow("u1"), [UploadedRow("u1") EXCEPT !.processing_status = "failed"]}

SearchQueries ==
  {SearchQuery(u, t, q) : u \in {"u1", "u2"}, t \in {<<>>, <<"X">>},
                          q \in {NoFilter, Query(<<"k">>, <<>>, <<>>, <<>>, <<>>),
                                  Query(<<>>, <<>>, <<"1">>, <<>>, <<>>)}}
  \cup {SearchQuery("", <<>>, NoFilter)}

\* The select fails for one of the searches.
SearchInputs ==
  {[query |-> q, dbError |-> FALSE] : q \in SearchQueries}
  \cup {[query |-> SearchQuery("u1", <<>>, NoFilter), dbError |-> TRUE]}

InitSearch ==
  /\ \E row \in StoredRows : StartedWith([d \in DocIds |-> IF d = "d1" THEN UploadedRow("u1") ELSE row])
  /\ unit = NoUnit

NextSearch ==
  \/ Receive("h1", Body("d1", "u1/doc.pdf", NoFilter))
  \/ MarkProcessing("h1")
  \/ \E error \in BOOLEAN : Download("h1", error)
  \/ ExtractText("h1", Extracted(<<Run("a", 25)>>), "tam")
  \/ \E k \in 1..Len(tasks["h1"]) : ChunkAnswer("h1", k, Answer(200, <<"x">>))
  \/ \E r \in {Answer(200, RecordsText), Answer(200, FencedText)} : FieldsAnswer("h1", r)
  \/ SaveCompleted("h1")
  \/ SaveFailed("h1")
  \/ Respond("h1")
  \/ \E in \in SearchInputs : SearchDocuments("s1", in.query, in.dbError)

SpecSearch == InitSearch /\ [][NextSearch]_vars

\* Two activations of the handler take requests for the same document at the
\* same time; the download may fail, everything after it succeeds.
Overlapping(i) ==
  \/ Receive(i, Body("d1", "u1/doc.pdf", NoFilter))
  \/ MarkProcessing(i)
  \/ \E error \in BOOLEAN : Download(i, error)
  \/ ExtractText(i, Extracted(<<Run("a", 25)>>), "tam")
  \/ \E k \in 1..Len(tasks[i]) : ChunkAnswer(i, k, Answer(200, <<"x">>))
  \/ FieldsAnswer(i, Answer(200, RecordsText))
  \/ SaveCompleted(i)
  \/ SaveFailed(i)
  \/ Respond(i)

NextOverlap == Overlapping("h1") \/ Overlapping("h2")

SpecOverlap == Init /\ [][NextOverlap]_vars

\* One request with any of the filters, for a document whose field
\* extraction answers any array of up to MaxElems elements.
NextRecords ==
  \/ \E q \in Queries : pc["h1"] = "idle" /\ Receive("h1", Body("d1", "u1/doc.pdf", q))
  \/ MarkProcessing("h1")
  \/ Download("h1", FALSE)
  \/ ExtractText("h1", Extracted(<<Run("a", 25)>>), "tam")
  \/ \E k \in 1..Len(tasks["h1"]) : ChunkAnswer("h1", k, Answer(200, <<"x">>))
  \/ \E a \in RecordsOf(MaxElems) : FieldsAnswer("h1", Answer(200, Stringify(JArr(a))))
  \/ SaveCompleted("h1")
  \/ SaveFailed("h1")
  \/ Respond("h1")

SpecRecords == Init /\ [][NextRecords]_vars

\* One drop on the upload area: up to MaxFiles files the dropzone accepts
\* (by their type or by their .pdf extension, whatever type the browser
\* reports), of one to three pages or unreadable, by a signed-in user or not.
FileTypes == {PDF, ""}

Files ==
  {File(t, n, TRUE) : t \in FileTypes, n \in 1..PAGE_LIMIT + 1}
  \cup {File(t, 0, FALSE) : t \in FileTypes}

RECURSIVE DropsOf(_)
DropsOf(n) ==
  IF n = 0 THEN {<<>>}
  ELSE DropsOf(n - 1) \cup {Append(d, f) : d \in {e \in DropsOf(n - 1) : Len(e) = n - 1}, f \in Files}

InitClient == Started /\ unit = NoUnit

NextClient ==
  \/ \E acceptedFiles \in DropsOf(MaxFiles), user \in {"u1", ""} :
       onDropWithValidation("c1", acceptedFiles, user)
  \/ ValidateNext("c1")
  \/ \E k \in 1..MaxFiles, uploadError \in BOOLEAN : UploadAnswer("c1", k, uploadError)
  \/ \E k \in 1..MaxFiles, docError \in BOOLEAN : InsertAnswer("c1", k, docError)
  \/ \E k \in 1..MaxFiles : FetchAnswer("c1", k)

SpecClient == InitClient /\ [][NextClient]_vars

\* ================================================================== claims
Statuses(log) == [k \in 1..Len(log) |-> log[k].processing_status]

Ended(i) == pc[i] = "responded" /\ ValidBody(req[i])

Target(i) == req[i].documentId

\* C1: an invocation with documentId and filePath has exactly two updates
\* applied to the row: first the one that sets processing, last one that sets
\* completed or failed; it never writes both terminal statuses, never ends
\* with the row in processing, and the row's last update is its own.
C1_ProcessingThenOneTerminal ==
  \A i \in Handlers :
    /\ Statuses(writes[i]) \in {<<>>, <<"processing">>, <<"processing", "completed">>,
                               <<"processing", "failed">>}
    /\ (ValidBody(req[i]) /\ pc[i] \notin {"idle", "marking"}) => Len(writes[i]) >= 1
    /\ (ValidBody(req[i]) /\ pc[i] \in {"sending200", "sending500", "responded"})
         => Len(writes[i]) = 2
    /\ Ended(i) => /\ docs[Target(i)].processing_status \in {"completed", "failed"}
                   /\ docs[Target(i)].processing_status = Statuses(writes[i])[2]
    /\ writes[i] # <<>> => lastUpdate[Target(i)] =
                             [serial |-> serial[i], patch |-> writes[i][Len(writes[i])]]

C1_Witness ==
  \E i \in Handlers : Ended(i) /\ Statuses(writes[i]) = <<"processing", "completed">>

\* C2: the response is 200 exactly when the invocation's terminal update set
\* completed, 500 exactly when it set failed, and no response is sent before
\* the terminal update.
C2_ResponseAgreesWithTerminalWrite ==
  \A i \in Handlers :
    /\ resp[i].status = 200 => Statuses(writes[i]) = <<"processing", "completed">>
    /\ resp[i].status = 500 => Statuses(writes[i]) = <<"processing", "failed">>
    /\ Ended(i) => /\ Len(writes[i]) = 2
                   /\ Statuses(writes[i])[2] = "completed" => resp[i].status = 200
                   /\ Statuses(writes[i])[2] = "failed" => resp[i].status = 500
    /\ pc[i] \notin {"idle", "responded"} => resp[i].status = 0

C2_Witness ==
  \E i \in Handlers : Ended(i) /\ resp[i].status = 500
                      /\ Statuses(writes[i]) = <<"processing", "failed">>

\* C3: a row is completed only by an update that wrote original text,
\* translated text, detected language and records together, with the values
\* one invocation computed; and no update of the pipeline sets any of the four
\* without setting completed.
C3_CompletedWrittenTogether ==
  /\ \A d \in DocIds :
       docs[d].processing_status = "completed" =>
         LET u == lastUpdate[d]
         IN  /\ TextFields \subseteq DOMAIN u.patch
             /\ u.patch.processing_status = "completed"
             /\ \A f \in TextFields : docs[d][f] = u.patch[f]
             /\ \A i \in Handlers :
                  (serial[i] = u.serial /\ pc[i] # "idle") =>
                     /\ docs[d].original_text = loc[i].originalText
                     /\ docs[d].translated_text = loc[i].translated
                     /\ docs[d].detected_language = loc[i].detected
                     /\ docs[d].parsed_data = JArr(loc[i].filtered)
  /\ \A i \in Handlers : \A k \in 1..Len(writes[i]) :
       (DOMAIN writes[i][k] \cap TextFields # {}) =>
          /\ TextFields \subseteq DOMAIN writes[i][k]
          /\ writes[i][k].processing_status = "completed"

C3_Witness ==
  \E d \in DocIds : /\ docs[d].processing_status = "completed"
                    /\ docs[d].translated_text # <<>>
                    /\ docs[d].parsed_data.v # <<>>

\* C4: the updates of an invocation that does not complete name the status
\* alone, and the four text fields of its row stay what they were when the
\* request arrived, also for a completed document that is processed again.
C4_FailureKeepsTextFields ==
  \A i \in Handlers :
    /\ \A k \in 1..Len(writes[i]) :
         writes[i][k].processing_status # "completed"
           => DOMAIN writes[i][k] = {"processing_status"}
    /\ ( /\ ValidBody(req[i]) /\ pc[i] # "idle"
         /\ \A k \in 1..Len(writes[i]) : writes[i][k].processing_status # "completed" )
         => \A f \in TextFields : docs[Target(i)][f] = before[i][f]

C4_Witness ==
  \E i \in Handlers : /\ Ended(i) /\ resp[i].status = 500
                      /\ before[i].processing_status = "completed"
                      /\ before[i].translated_text # <<>>
                      /\ docs[Target(i)].translated_text # <<>>

\* C5: when the download answers an error the invocation extracts no text,
\* detects no language and calls Gemini never; it writes failed and answers 500.
C5_DownloadErrorAborts ==
  \A i \in Handlers :
    loc[i].download = "error" =>
      /\ loc[i].has = {}
      /\ tasks[i] = <<>> /\ fx[i] = IdleCall
      /\ pc[i] \in {"savingFailed", "sending500", "responded"}
      /\ pc[i] \in {"sending500", "responded"}
           => /\ Statuses(writes[i]) = <<"processing", "failed">>
              /\ docs[Target(i)].processing_status = "failed"
      /\ pc[i] = "responded" => resp[i].status = 500

C5_Witness ==
  \E i \in Handlers : loc[i].download = "error" /\ pc[i] = "responded"

\* C6: a request whose body lacks documentId or filePath is answered 400 and
\* nothing else happens: no update, no download, no Gemini call, and no row
\* changes.
Lacks(body) == body.documentId = "" \/ body.filePath = ""

C6_AnsweredAtOnce ==
  \A i \in Handlers :
    (pc[i] # "idle" /\ Lacks(req[i])) =>
       /\ pc[i] = "responded" /\ resp[i].status = 400
       /\ writes[i] = <<>> /\ loc[i] = NoLocals
       /\ tasks[i] = <<>> /\ fx[i] = IdleCall

C6_NoRowChanges ==
  \A i \in Handlers : (pc'[i] # "idle" /\ Lacks(req'[i])) => docs' = docs

C6_MissingFieldsNoEffect == [](C6_AnsweredAtOnce) /\ [][C6_NoRowChanges]_vars

C6_Witness ==
  \E i \in Handlers : /\ pc[i] = "responded" /\ resp[i].status = 400
                      /\ docs["d1"].processing_status = "completed"

\* C7 (as the specification states it): after a 4xx answer the call is
\* rejected with the response body, and the fetch that received the 4xx is
\* the last one the call ever issues.
BodyOf(status) == (CHOOSE r \in RetryAnswers : r.status = status).text

C7_ClientErrorContactsOnce ==
  \A k \in 1..Len(tasks["t1"]) :
    LET c == tasks["t1"][k]
    IN  \A j \in 1..Len(c.log) :
          c.log[j] \in 400..499 =>
            /\ c.settled = "rejected" /\ c.value = BodyOf(c.log[j])
            /\ c.att = j

\* C8: a call whose attempts all fail with 5xx or a network error fetches
\* RETRIES + 1 = 3 times and is then rejected, not earlier; no call fetches a
\* 4th time; and the attempt that receives a 2xx is the call's last.
Transient(status) == status = 0 \/ status >= 500

AllTransient(c) == \A j \in 1..Len(c.log) : Transient(c.log[j])

C8_ThreeAttemptsThenFail ==
  \A k \in 1..Len(tasks["t1"]) :
    LET c == tasks["t1"][k]
    IN  /\ c.att <= RETRIES + 1
        /\ (AllTransient(c) /\ c.phase = "done")
             => c.att = RETRIES + 1 /\ Len(c.log) = RETRIES + 1 /\ c.settled = "rejected"
        /\ (AllTransient(c) /\ Len(c.log) < RETRIES + 1)
             => c.settled = "pending" /\ c.phase # "done"
        /\ \A j \in 1..Len(c.log) :
             c.log[j] \in 200..299 => j = Len(c.log) /\ c.att = j /\ c.phase = "done"

C8_Witness ==
  \E k \in 1..Len(tasks["t1"]) :
    /\ tasks["t1"][k].log = <<500, 0, 503>>
    /\ tasks["t1"][k].phase = "done"
    /\ tasks["t1"][k].settled = "rejected"

\* C9 (as the specification states it): while translateToEnglish runs, at
\* most CONCURRENCY = 6 fetches are in flight.
InFlight(ts) == Cardinality({k \in 1..Len(ts) : ts[k].phase = "fetch"})

C9_AtMostSixInFlight ==
  pc["t1"] = "translating" => InFlight(tasks["t1"]) <= CONCURRENCY

\* C10: translateToEnglish returns the outcomes of its chunks (the
\* translation, or the empty string of a rejected call), the one of chunk k at
\* position k, joined with a newline and trimmed, in whatever order the calls
\* completed.
Outcome(c) == IF c.settled = "fulfilled" THEN c.value ELSE <<>>

RECURSIVE ExpectedJoin(_, _)
ExpectedJoin(ts, k) ==
  IF k > Len(ts) THEN <<>>
  ELSE Outcome(ts[k]) \o (IF k < Len(ts) THEN <<"\n">> ELSE <<>>) \o ExpectedJoin(ts, k + 1)

C10_JoinedInIndexOrder ==
  pc["t1"] = "returned" =>
    LET chunks == chunkText(loc["t1"].originalText, CHUNK_SIZE)
    IN  /\ Len(tasks["t1"]) = Len(chunks)
        /\ \A k \in 1..Len(chunks) : tasks["t1"][k].prompt.chunk = chunks[k]
        /\ loc["t1"].translated = StrTrim(ExpectedJoin(tasks["t1"], 1))

C10_Witness ==
  /\ pc["t1"] = "returned"
  /\ Len(tasks["t1"]) = 3
  /\ tasks["t1"][1].settled = "fulfilled" /\ tasks["t1"][1].value = <<"x">>
  /\ tasks["t1"][2].settled = "rejected"
  /\ tasks["t1"][3].settled = "fulfilled" /\ tasks["t1"][3].value = <<"y">>
  /\ loc["t1"].translated = <<"x", "\n", "\n", "y">>

\* C11: translateToEnglish returns only when every chunk call was dispatched
\* and has settled, whichever of them were rejected, all of them included;
\* what it returns keeps every translation and has the empty string in the
\* place of each rejected chunk.
KeptOrEmpty(ts) ==
  [k \in 1..Len(ts) |-> IF ts[k].settled = "rejected" THEN <<>> ELSE ts[k].value]

C11_RejectedChunksLeaveOthers ==
  /\ pc["t1"] = "returned" =>
       /\ \A k \in 1..Len(tasks["t1"]) :
            tasks["t1"][k].att >= 1 /\ tasks["t1"][k].settled \in {"fulfilled", "rejected"}
       /\ loc["t1"].translated = StrTrim(JoinNewline(KeptOrEmpty(tasks["t1"])))
  /\ pc["t1"] = "translating" =>
       \E k \in 1..Len(tasks["t1"]) : tasks["t1"][k].settled = "pending"

C11_Witness ==
  /\ pc["t1"] = "returned"
  /\ Len(tasks["t1"]) = 3
  /\ \A k \in 1..3 : tasks["t1"][k].settled = "rejected"
  /\ loc["t1"].translated = <<>>

\* C12 (as the specification states it): once the handler has gone past
\* translateToEnglish (the field-extraction call is issued, a terminal status
\* is being written or was written) no chunk call of the invocation has a
\* fetch in flight or a retry scheduled.
PastTranslation(i) ==
  pc[i] \in {"extractingFields", "savingCompleted", "sending200",
             "savingFailed", "sending500", "responded"}

C12_ChunkCallsEndedBeforeFields ==
  \A i \in Handlers :
    PastTranslation(i) => \A k \in 1..Len(tasks[i]) : ~Live(tasks[i][k])

\* C13: the chunks chunkText returns, concatenated in order with no separator,
\* are the text (strings compared in their normal form: adjacent runs of one
\* character merged).
RECURSIVE Concat(_)
Concat(chunks) == IF chunks = <<>> THEN <<>> ELSE Head(chunks) \o Concat(Tail(chunks))

RECURSIVE Normal(_)
Normal(t) ==
  IF Len(t) < 2 THEN t
  ELSE IF t[1].c = t[2].c
       THEN Normal(<<Run(t[1].c, t[1].n + t[2].n)>> \o SubSeq(t, 3, Len(t)))
       ELSE <<t[1]>> \o Normal(Tail(t))

ChunkTextReturned == unit.fn = "chunkText" /\ unit.done

C13_ChunksConcatenateToText ==
  ChunkTextReturned => Normal(Concat(unit.ret)) = Normal(unit.args.text)

C13_Witness ==
  /\ ChunkTextReturned
  /\ unit.args.text = <<Run("a", 2), Run("b", 3)>> /\ unit.args.size = 3
  /\ unit.ret = <<<<Run("a", 2), Run("b", 1)>>, <<Run("b", 2)>>>>

\* C14: every chunk is non-empty and at most size characters long, there are
\* ceil(length / size) chunks, and the empty text has none.
C14_ChunkSizesAndCount ==
  ChunkTextReturned =>
    LET length == TextLen(unit.args.text)
        size   == unit.args.size
        count  == Len(unit.ret)
    IN  /\ \A k \in 1..count : TextLen(unit.ret[k]) \in 1..size
        /\ (count - 1) * size < length \/ count = 0
        /\ length <= count * size
        /\ unit.args.text = <<>> => unit.ret = <<>>

C14_Witness ==
  /\ ChunkTextReturned
  /\ unit.args.size = CHUNK_SIZE
  /\ Len(unit.ret) = 3
  /\ TextLen(unit.ret[1]) = CHUNK_SIZE /\ TextLen(unit.ret[3]) = 1

\* C15: translateToEnglish called with the empty text has returned the empty
\* string at once, whatever the source language, with no callGemini made and
\* no fetch issued.
C15_EmptyTextNoCall ==
  (pc["t1"] # "idle" /\ loc["t1"].originalText = <<>>) =>
     /\ pc["t1"] = "returned"
     /\ loc["t1"].translated = <<>>
     /\ tasks["t1"] = <<>> /\ fx["t1"] = IdleCall
     /\ "callGemini" \notin loc["t1"].has

C15_Witness ==
  /\ pc["t1"] = "returned"
  /\ loc["t1"].originalText = <<>> /\ loc["t1"].detected = "en"
  /\ loc["t1"].translated = <<>>

\* C16: extractTransactionFields returns a sequence for every response: the
\* array the cleaned response denotes when it denotes one, the empty
\* sequence when the cleaned response is no JSON or denotes another value.
\* (A response that is a JSON text denotes, once cleaned, the value with the
\* fence markers gone from its strings.)
RECURSIVE WithoutMarkers(_)
WithoutMarkers(s) ==
  IF s = <<>> THEN <<>>
  ELSE IF Len(s) >= 3 /\ s[1] = "bq" /\ s[2] = "bq" /\ s[3] = "bq"
       THEN WithoutMarkers(SubSeq(s, 4, Len(s)))
       ELSE <<Head(s)>> \o WithoutMarkers(Tail(s))

CleanedElement(e) == IF e.t = "str" THEN JStr(WithoutMarkers(e.v)) ELSE e

CleanedArray(a) == [j \in 1..Len(a) |-> CleanedElement(a[j])]

FieldsReturned == unit.fn = "extractTransactionFields" /\ unit.done

C16_SoftFailOrArray ==
  FieldsReturned =>
    /\ DOMAIN unit.ret = 1..Len(unit.ret)
    /\ unit.ret = IF unit.args.value.t = "arr"
                  THEN CleanedArray(unit.args.value.v)
                  ELSE <<>>

C16_Witness ==
  /\ FieldsReturned
  /\ unit.args.response = <<"[", "{kumar}", ",", "]">>
  /\ unit.ret = <<>>

\* C17 (as the specification states it): a JSON array text inside a leading
\* and a trailing fence marker gives the records of the array text: nothing
\* but the two markers is taken away.
C17_FencedArrayGivesItsRecords ==
  (FieldsReturned /\ unit.args.wrap # "bare" /\ unit.args.value.t = "arr")
    => unit.ret = unit.args.value.v

\* C18: detectLangISO1 returns ta, hi, en or auto: auto for a text that is
\* absent or has fewer than 20 characters once trimmed, whatever franc would
\* answer; otherwise ta for tam, hi for hin, en for eng and auto for any other
\* code.
DetectReturned == unit.fn = "detectLangISO1" /\ unit.done

C18_DetectedLanguage ==
  DetectReturned =>
    /\ unit.ret \in {"ta", "hi", "en", "auto"}
    /\ unit.args.core < 20 => unit.ret = "auto"
    /\ unit.args.core >= 20 =>
         /\ unit.args.code3 = "tam" => unit.ret = "ta"
         /\ unit.args.code3 = "hin" => unit.ret = "hi"
         /\ unit.args.code3 = "eng" => unit.ret = "en"
         /\ unit.args.code3 \notin {"tam", "hin", "eng"} => unit.ret = "auto"

C18_Witness ==
  /\ DetectReturned
  /\ unit.args.text = <<Run(" ", 1), Run("a", 19), Run("\n", 1)>>
  /\ unit.args.code3 = "tam"
  /\ unit.ret = "auto"

\* C19 (as the specification states it): of records whose fields are strings
\* or absent, filterTransactions keeps exactly those where every filter given
\* is a substring of its field, letter case disregarded, for each of the five
\* fields; with no filter it keeps every record.
FilterFields ==
  {<<"buyer", "buyer">>, <<"seller", "seller">>, <<"house_no", "houseNumber">>,
   <<"survey_no", "surveyNumber">>, <<"document_no", "documentNumber">>}

PlainRecord(t) ==
  t.t = "obj" /\ \A f \in FilterFields : t.v[f[1]].t \in {"str", "undef", "null"}

ContainsFolded(t, q) ==
  \A f \in FilterFields :
    \/ q[f[2]] = <<>>
    \/ /\ t.v[f[1]].t = "str"
       /\ includes(toLowerCase(t.v[f[1]].v), toLowerCase(q[f[2]]))

FilterReturned == unit.fn = "filterTransactions" /\ unit.done

C19_CaseInsensitiveOnEveryField ==
  (FilterReturned /\ \A j \in 1..Len(unit.args.transactions) : PlainRecord(unit.args.transactions[j]))
    => LET Kept(t) == ContainsFolded(t, unit.args.q)
       IN  /\ ~unit.ret.throws
           /\ unit.ret.val = SelectSeq(unit.args.transactions, Kept)

\* C20 (as the specification states it): when a filter is given, the search
\* keeps a document with a record array exactly when filterTransactions, given
\* the records and the same filters, keeps at least one record.
SearchReturned == unit.fn = "search" /\ unit.done

C20_SearchDecidesLikePipeline ==
  (SearchReturned /\ unit.args.q # NoFilter) =>
    LET kept == filterTransactions(unit.args.transactions, unit.args.q)
    IN  (unit.ret = "T") <=> (~kept.throws /\ kept.val # <<>>)

\* C21: every document of a search response is completed and belongs to the
\* userId of the request; and as long as no row was updated since the select
\* ran, a row that is processing or failed is not among them, the row of a
\* completed document that is being processed again included.
Searched(s) == pc[s] = "responded" /\ resp[s].status = 200

Returned(s) == {resp[s].documents[k].id : k \in 1..Len(resp[s].documents)}

C21_OnlyCompletedOfOwner ==
  Searched("s1") =>
    /\ \A k \in 1..Len(resp["s1"].documents) :
         /\ resp["s1"].documents[k].row.processing_status = "completed"
         /\ resp["s1"].documents[k].row.user_id = req["s1"].userId
    /\ loc["s1"].seen = lastUpdate =>
         \A d \in Returned("s1") : /\ docs[d].processing_status = "completed"
                                   /\ docs[d].user_id = req["s1"].userId

C21_Witness ==
  /\ Searched("s1")
  /\ req["s1"] = SearchQuery("u1", <<>>, NoFilter)
  /\ loc["s1"].seen = lastUpdate
  /\ docs["d1"].processing_status = "processing" /\ docs["d1"].translated_text # <<>>
  /\ docs["d2"].user_id = "u1"
  /\ Returned("s1") = {"d2"}

\* C22 (as the specification states it): every chunk prompt of
\* translateToEnglish for a source language other than "ta", the sentinel
\* "auto" included, is the generic prompt, and every prompt for "ta" is the
\* legal/property prompt.
C22_GenericForAuto ==
  \A k \in 1..Len(tasks["t1"]) :
    tasks["t1"][k].prompt.kind =
      (IF tasks["t1"][k].prompt.lang = "ta" THEN "tamil-legal" ELSE "generic")

\* C22 (amended): every chunk prompt of one translateToEnglish call is built
\* for the call's source language; it is the legal/property prompt when that
\* language is "ta" or the sentinel "auto", and the generic prompt naming the
\* language for every other code.
C22_PromptByLanguage ==
  \A k \in 1..Len(tasks["t1"]) :
    /\ tasks["t1"][k].prompt.lang = loc["t1"].detected
    /\ loc["t1"].detected \in {"ta", "auto"} => tasks["t1"][k].prompt.kind = "tamil-legal"
    /\ loc["t1"].detected \notin {"ta", "auto"} => tasks["t1"][k].prompt.kind = "generic"

C22_Witness ==
  /\ pc["t1"] = "translating"
  /\ Len(tasks["t1"]) = 2
  /\ loc["t1"].detected = "auto"
  /\ tasks["t1"][2].prompt.kind = "tamil-legal"
  /\ tasks["t1"][2].att >= 1

\* C23 (as the specification states it): for a dropped PDF of more than two
\* pages the client makes no storage upload, no insert of a document row and
\* no process-document request, and once the drop is gone through every
\* other file of the drop was handled (handed to processFile, or reported as
\* unreadable).
OverLimit(file) == file.readable /\ file.numPages > PAGE_LIMIT

Made(c) == loc[c].uploads \cup loc[c].inserts \cup loc[c].posts

OthersHandled(c) ==
  pc[c] = "dropped" =>
    \A k \in 1..Len(req[c]) : ~OverLimit(req[c][k]) => loc[c].proc[k] \notin {"none", "skipped"}

C23_NoUploadOverTwoPages ==
  pc["c1"] \in {"validating", "dropped"} =>
    /\ \A k \in 1..Len(req["c1"]) : OverLimit(req["c1"][k]) => k \notin Made("c1")
    /\ OthersHandled("c1")

\* C23, for the files the browser reports as application/pdf only: none of
\* more than two pages is uploaded, inserted or posted, and the others of the
\* drop are handled.
C23_TypedPdfOverLimitSkipped ==
  pc["c1"] \in {"validating", "dropped"} =>
    /\ \A k \in 1..Len(req["c1"]) :
         (req["c1"][k].type = PDF /\ OverLimit(req["c1"][k])) =>
            k \notin Made("c1") /\ loc["c1"].proc[k] \in {"none", "skipped"}
    /\ OthersHandled("c1")

\* C24: an invocation whose download and text extraction succeeded and whose
\* field-extraction call returned a response ends completed with a 200 unless
\* filtering the records raises; rejected chunk translations, all of them
\* included, and a response that is no JSON array never make it fail.  So an
\* invocation that got its text ends failed only because the field-extraction
\* call failed after the translation returned, or because a filter met a
\* record that is not plain.
FilterCanRaise(i) ==
  /\ req[i].filters # NoFilter
  /\ \E j \in 1..Len(loc[i].transactions) : ~PlainRecord(loc[i].transactions[j])

C24_DegradedStillCompleted ==
  \A i \in Handlers :
    /\ ("transactions" \in loc[i].has /\ ~FilterCanRaise(i)) =>
         /\ pc[i] \in {"savingCompleted", "sending200", "responded"}
         /\ pc[i] = "responded" =>
              /\ resp[i].status = 200
              /\ Statuses(writes[i]) = <<"processing", "completed">>
              /\ docs[Target(i)].processing_status = "completed"
    /\ (Ended(i) /\ "originalText" \in loc[i].has /\ resp[i].status # 200) =>
         \/ "translated" \in loc[i].has /\ "transactions" \notin loc[i].has
         \/ "transactions" \in loc[i].has /\ FilterCanRaise(i)

C24_Witness ==
  \E i \in Handlers :
    /\ Ended(i) /\ resp[i].status = 200
    /\ loc[i].originalText # <<>> /\ loc[i].translated = <<>>
    /\ loc[i].transactions = <<>>
    /\ docs[Target(i)].processing_status = "completed"
    /\ docs[Target(i)].original_text # <<>>
    /\ docs[Target(i)].translated_text = <<>>
    /\ docs[Target(i)].parsed_data = JArr(<<>>)

\* C25: invocations for one document id are not serialised: at every moment
\* the row has the status of the update that landed last, whichever
\* invocation sent it and whatever the other one wrote; a completed update
\* that landed last leaves its four text fields, and a status-only update
\* leaves the text fields the row had, also those another invocation wrote.
C25_StatusOfLastUpdate ==
  \A d \in DocIds :
    lastUpdate[d].serial # 0 =>
      /\ docs[d].processing_status = lastUpdate[d].patch.processing_status
      /\ lastUpdate[d].patch.processing_status = "completed" =>
           \A f \in TextFields : docs[d][f] = lastUpdate[d].patch[f]

C25_StatusOnlyKeepsTexts ==
  \A d \in DocIds :
    (lastUpdate'[d] # lastUpdate[d] /\ lastUpdate'[d].patch.processing_status # "completed")
      => \A f \in TextFields : docs'[d][f] = docs[d][f]

C25_LastWriteWins == []C25_StatusOfLastUpdate /\ [][C25_StatusOnlyKeepsTexts]_vars

\* h2 arrived before h1's completed update, failed, and its failed update
\* landed after it: the row is failed and holds what h1 wrote.
C25_Witness ==
  /\ Ended("h1") /\ Ended("h2") /\ Target("h1") = Target("h2")
  /\ resp["h1"].status = 200 /\ resp["h2"].status = 500
  /\ before["h2"].translated_text = <<>>
  /\ lastUpdate[Target("h2")].serial = serial["h2"]
  /\ docs[Target("h1")].processing_status = "failed"
  /\ docs[Target("h1")].translated_text # <<>>
  /\ \A f \in TextFields : docs[Target("h1")][f] = writes["h1"][2][f]

\* h2 arrived before h1's completed update and marked the row processing
\* after it: the row is processing while h1 has responded 200.
C25_ProcessingAfter200 ==
  /\ Ended("h1") /\ resp["h1"].status = 200
  /\ Target("h1") = Target("h2")
  /\ pc["h2"] = "downloading"
  /\ before["h2"].translated_text = <<>>
  /\ lastUpdate[Target("h2")].serial = serial["h2"]
  /\ docs[Target("h1")].processing_status = "processing"
  /\ docs[Target("h1")].translated_text # <<>>

\* C26: when the callGemini of extractTransactionFields is rejected (a 4xx
\* answer, or a 5xx answer or failed fetch on each of its attempts) the handler
\* enters its catch block: the invocation writes failed and answers 500 with
\* the error, and the row keeps the text fields it had when the request
\* arrived, not the original text, language and translation just computed.
FieldsCallFailed(i) ==
  /\ "translated" \in loc[i].has
  /\ "transactions" \notin loc[i].has
  /\ pc[i] # "extractingFields"

C26_FieldsFailureIsFatal ==
  \A i \in Handlers :
    /\ FieldsCallFailed(i) =>
         /\ pc[i] \in {"savingFailed", "sending500", "responded"}
         /\ loc[i].error # <<>>
         /\ \A f \in TextFields : docs[Target(i)][f] = before[i][f]
         /\ pc[i] \in {"sending500", "responded"} =>
              /\ Statuses(writes[i]) = <<"processing", "failed">>
              /\ docs[Target(i)].processing_status = "failed"
         /\ pc[i] = "responded" => resp[i].status = 500 /\ resp[i].error = loc[i].error
    /\ pc[i] = "extractingFields" => fx[i].settled = "pending" /\ fx[i].att \in 1..RETRIES + 1

C26_Witness ==
  \E i \in Handlers :
    /\ Ended(i) /\ FieldsCallFailed(i)
    /\ resp[i].status = 500 /\ resp[i].error = <<"Gemini ", "500", ": ", "oops">>
    /\ loc[i].originalText # <<>> /\ loc[i].translated # <<>> /\ loc[i].detected = "ta"
    /\ docs[Target(i)].processing_status = "failed"
    /\ docs[Target(i)].original_text = <<>>
    /\ docs[Target(i)].translated_text = <<>>
    /\ docs[Target(i)].detected_language = ""

\* C27 (as the specification states it): with a filter given and an
\* extracted array holding a null element, or a record whose field for a
\* given filter is a non-null value that is not a string, the invocation ends
\* failed with a 500; with no filter the array is stored unchanged and the
\* invocation ends completed.
Given(q) == {f \in FilterFields : q[f[2]] # <<>>}

NotAString(t, f) == t.t = "obj" /\ t.v[f[1]].t \notin {"str", "undef", "null"}

Extracted200(i) == Ended(i) /\ "transactions" \in loc[i].has

EndedFailed(i) ==
  /\ resp[i].status = 500
  /\ Statuses(writes[i]) = <<"processing", "failed">>
  /\ docs[Target(i)].processing_status = "failed"

EndedCompleted(i) ==
  /\ resp[i].status = 200
  /\ Statuses(writes[i]) = <<"processing", "completed">>
  /\ docs[Target(i)].processing_status = "completed"

C27_NonStringFieldRaises ==
  \A i \in Handlers :
    Extracted200(i) =>
      /\ (\E j \in 1..Len(loc[i].transactions) :
            /\ Given(req[i].filters) # {}
            /\ \/ loc[i].transactions[j].t = "null"
               \/ \E f \in Given(req[i].filters) : NotAString(loc[i].transactions[j], f))
           => EndedFailed(i)
      /\ req[i].filters = NoFilter =>
           EndedCompleted(i) /\ docs[Target(i)].parsed_data = JArr(loc[i].transactions)

\* C27 (amended): each element is tested against the given filters in the
\* order buyer, seller, house number, survey number, document number, up to
\* the first it does not match.  A null element with any filter given, and a
\* record that meets there a non-null value that is not a string (an array in
\* one of the three number fields is searched for the value instead), raise:
\* the invocation ends failed with a 500.  A record that meets there a
\* missing or null field is dropped without error.  With no filter the array
\* is stored unchanged and the invocation ends completed.
Order == <<"buyer", "seller", "house_no", "survey_no", "document_no">>

Wanted(q, name) == q[(CHOOSE f \in FilterFields : f[1] = name)[2]]

Folded(name) == name \in {"buyer", "seller"}

MatchesField(t, name, q) ==
  LET v == t.v[name]
  IN  \/ Wanted(q, name) = <<>>
      \/ /\ v.t = "str"
         /\ IF Folded(name) THEN includes(toLowerCase(v.v), toLowerCase(Wanted(q, name)))
            ELSE includes(v.v, Wanted(q, name))
      \/ /\ v.t = "arr" /\ ~Folded(name)
         /\ \E j \in 1..Len(v.v) : v.v[j] = JStr(Wanted(q, name))

\* The positions in Order of the fields the record does not match.
Unmatched(t, q) == {n \in 1..Len(Order) : ~MatchesField(t, Order[n], q)}

FirstUnmatched(t, q) == CHOOSE n \in Unmatched(t, q) : \A m \in Unmatched(t, q) : n <= m

Raises(t, q) ==
  \/ t.t = "null" /\ q # NoFilter
  \/ /\ t.t = "obj" /\ Unmatched(t, q) # {}
     /\ t.v[Order[FirstUnmatched(t, q)]].t \notin {"str", "undef", "null", "arr"}
  \/ /\ t.t = "obj" /\ Unmatched(t, q) # {}
     /\ t.v[Order[FirstUnmatched(t, q)]].t = "arr" /\ Folded(Order[FirstUnmatched(t, q)])

DroppedQuietly(t, q) ==
  /\ t.t = "obj" /\ Unmatched(t, q) # {}
  /\ t.v[Order[FirstUnmatched(t, q)]].t \in {"undef", "null"}

C27_FirstUnmatchedFieldDecides ==
  \A i \in Handlers :
    Extracted200(i) =>
      LET ts == loc[i].transactions
          q  == req[i].filters
      IN  /\ (\E j \in 1..Len(ts) : Raises(ts[j], q))
               => EndedFailed(i) /\ resp[i].error = <<"TypeError">>
          /\ ~(\E j \in 1..Len(ts) : Raises(ts[j], q))
               => /\ EndedCompleted(i)
                  /\ \A j \in 1..Len(ts) :
                       DroppedQuietly(ts[j], q) =>
                         \A k \in 1..Len(loc[i].filtered) : loc[i].filtered[k] # ts[j]
          /\ q = NoFilter =>
               EndedCompleted(i) /\ docs[Target(i)].parsed_data = JArr(ts)

\* {odd} has a number as house_no and null as seller: with seller and house
\* number given it is dropped at the seller; {list} has an array as house_no.
C27_Witness ==
  \E i \in Handlers :
    /\ Extracted200(i) /\ EndedCompleted(i)
    /\ req[i].filters = Query(<<>>, <<"S">>, <<"1">>, <<>>, <<>>)
    /\ loc[i].transactions = <<JObj(ObjectOf("{odd}")), JObj(ObjectOf("{kumar}"))>>
    /\ docs[Target(i)].parsed_data = JArr(<<JObj(ObjectOf("{kumar}"))>>)

C27_WitnessRaised ==
  \E i \in Handlers :
    /\ Extracted200(i) /\ EndedFailed(i)
    /\ req[i].filters = Query(<<>>, <<>>, <<"1">>, <<>>, <<>>)
    /\ loc[i].transactions = <<JObj(ObjectOf("{kumar}")), JObj(ObjectOf("{odd}"))>>

\* C28: when an invocation has completed, the records stored on the row are
\* elements of the array field extraction returned, in the order they have
\* there, each taken at most once; and the transaction_count of the 200
\* response is the number of stored records.
RECURSIVE IsSubsequence(_, _)
IsSubsequence(part, whole) ==
  IF part = <<>> THEN TRUE
  ELSE IF whole = <<>> THEN FALSE
  ELSE IF Head(part) = Head(whole) THEN IsSubsequence(Tail(part), Tail(whole))
  ELSE IsSubsequence(part, Tail(whole))

C28_StoredRecordsAreSubsequence ==
  \A i \in Handlers :
    (pc[i] \in {"sending200", "responded"} /\ "filtered" \in loc[i].has) =>
       /\ docs[Target(i)].parsed_data.t = "arr"
       /\ IsSubsequence(docs[Target(i)].parsed_data.v, loc[i].transactions)
       /\ writes[i][2].parsed_data = docs[Target(i)].parsed_data
       /\ pc[i] = "responded" =>
            /\ resp[i].status = 200
            /\ resp[i].transaction_count = Len(docs[Target(i)].parsed_data.v)

C28_Witness ==
  \E i \in Handlers :
    /\ Ended(i) /\ resp[i].status = 200
    /\ req[i].filters = Query(<<"k">>, <<>>, <<>>, <<>>, <<>>)
    /\ loc[i].transactions = <<JObj(ObjectOf("{singh}")), JObj(ObjectOf("{kumar}"))>>
    /\ docs[Target(i)].parsed_data = JArr(<<JObj(ObjectOf("{kumar}"))>>)
    /\ resp[i].transaction_count = 1

\* C29 (as the specification states it): when the extracted text is empty
\* the invocation makes no chunk call and one callGemini, the one of field
\* extraction, with empty translated text; when that call returns the
\* document ends completed with language auto, empty translated text and
\* chunks_translated 0, and when it fails the document ends failed.
EmptyText(i) == "originalText" \in loc[i].has /\ loc[i].originalText = <<>>

OnlyFieldsCall(i) ==
  /\ tasks[i] = <<>>
  /\ pc[i] # "translating"
  /\ loc[i].detected = "auto"
  /\ {"translated", "callGemini"} \subseteq loc[i].has
  /\ loc[i].translated = <<>>
  /\ fx[i].prompt = FieldsPrompt(<<>>)
  /\ pc[i] = "extractingFields" => fx[i].att >= 1

CompletedEmpty(i) ==
  /\ EndedCompleted(i)
  /\ docs[Target(i)].detected_language = "auto"
  /\ docs[Target(i)].translated_text = <<>>
  /\ docs[Target(i)].original_text = <<>>
  /\ resp[i].chunks_translated = 0

C29_EmptyTextCompletes ==
  \A i \in Handlers :
    EmptyText(i) =>
      /\ OnlyFieldsCall(i)
      /\ (Ended(i) /\ "transactions" \in loc[i].has) => CompletedEmpty(i)
      /\ (Ended(i) /\ "transactions" \notin loc[i].has) => EndedFailed(i)

\* C29 (amended): as above, but when the call returns the document ends
\* completed unless filtering the returned records raises an error, in which
\* case it ends failed.
C29_EmptyTextCompletesUnlessFilterRaises ==
  \A i \in Handlers :
    EmptyText(i) =>
      /\ OnlyFieldsCall(i)
      /\ (Ended(i) /\ "transactions" \in loc[i].has /\ ~FilterCanRaise(i)) => CompletedEmpty(i)
      /\ (Ended(i) /\ "transactions" \in loc[i].has /\ FilterCanRaise(i)) => EndedFailed(i)
      /\ (Ended(i) /\ "transactions" \notin loc[i].has) => EndedFailed(i)

C29_Witness ==
  \E i \in Handlers :
    /\ EmptyText(i) /\ Ended(i) /\ CompletedEmpty(i)
    /\ loc[i].transactions # <<>>

\* C30 (as the specification states it): a search whose select succeeded,
\* with a record filter given, returns every selected document whose
\* parsed_data is absent or no array and none whose array is empty or has no
\* record matching every given filter; with no record filter it returns the
\* selected documents.
SelectAnswered(s) ==
  pc[s] = "responded" /\ req[s].userId # "" /\ resp[s].error # <<"select failed">>

NoRecords(doc) == Falsy(doc.row.parsed_data) \/ doc.row.parsed_data.t # "arr"

TextOf(v) ==
  CASE v.t = "str" -> v.v
    [] v.t = "num" -> Digits(v.v[1])
    [] v.t = "arr" -> JoinComma(v.v)
    [] OTHER -> <<>>

FieldMatchesSearch(t, f, q) ==
  LET v == t.v[f[1]]
  IN  /\ ~Falsy(v)
      /\ IF Folded(f[1])
         THEN v.t = "str" /\ includes(toLowerCase(v.v), toLowerCase(q[f[2]]))
         ELSE includes(TextOf(v), q[f[2]])

MatchesAll(t, q) == t.t = "obj" /\ \A f \in Given(q) : FieldMatchesSearch(t, f, q)

HasMatch(doc, q) ==
  \E j \in 1..Len(doc.row.parsed_data.v) : MatchesAll(doc.row.parsed_data.v[j], q)

ReturnedDocs(s) == {resp[s].documents[k] : k \in 1..Len(resp[s].documents)}

AnswersByRecords(s) ==
  LET data == loc[s].data
      q    == req[s].filters
  IN  /\ q = NoFilter => resp[s].documents = data
      /\ q # NoFilter =>
           \A k \in 1..Len(data) :
             /\ NoRecords(data[k]) => data[k] \in ReturnedDocs(s)
             /\ (~NoRecords(data[k]) /\ ~HasMatch(data[k], q)) => data[k] \notin ReturnedDocs(s)

MayRaise(doc, q) ==
  /\ ~NoRecords(doc)
  /\ \E j \in 1..Len(doc.row.parsed_data.v) :
       LET t == doc.row.parsed_data.v[j]
       IN  \/ t.t = "null"
           \/ /\ t.t = "obj"
              /\ \E f \in Given(q) : Folded(f[1]) /\ ~Falsy(t.v[f[1]]) /\ t.v[f[1]].t # "str"

MustRaise(doc, q) ==
  /\ ~NoRecords(doc)
  /\ \E j \in 1..Len(doc.row.parsed_data.v) :
       /\ doc.row.parsed_data.v[j].t = "null"
       /\ \A m \in 1..(j - 1) :
            /\ PlainRecord(doc.row.parsed_data.v[m])
            /\ ~MatchesAll(doc.row.parsed_data.v[m], q)

ExpectedDocs(data, q) ==
  LET Kept(doc) == NoRecords(doc) \/ HasMatch(doc, q)
  IN  SelectSeq(data, Kept)

C30_WitnessExcluded ==
  /\ Searched("s1")
  /\ req["s1"].filters = Query(<<>>, <<>>, <<"1">>, <<>>, <<>>)
  /\ Len(loc["s1"].data) = 1
  /\ loc["s1"].data[1].row.parsed_data = JArr(<<>>)
  /\ resp["s1"].documents = <<>>

====
